---- MODULE Spec2Model ----
(***************************************************************************)
(* The VBC validation engine: the rule checkers of src/validation, the     *)
(* pipeline of src/main.py, the diagnostics layer and the report's flag    *)
(* ordering.                                                               *)
(*                                                                         *)
(* Numbers.  Money is in whole dollars.  Rates, shares and percentages     *)
(* that the code holds as fractions of one are held in thousandths         *)
(* (0.75 is 750, 0.005 is 5); comparisons of quotients are cross-          *)
(* multiplied, so every comparison is exact rational arithmetic.  The      *)
(* code computes in binary floating point; rounding of the last bit is     *)
(* outside this model.                                                     *)
(*                                                                         *)
(* Cells.  A cell of a table is a number, a text, a boolean, NaN (a        *)
(* missing value in a present column) or None (what row.get returns for    *)
(* an absent column when no default is given).                             *)
(*                                                                         *)
(* Exceptions.  Every checker yields a result [fl, n, ex]: the flags       *)
(* built so far, the number of _next_id() calls made, and whether an       *)
(* exception left the function.                                            *)
(***************************************************************************)
EXTENDS Integers, Sequences, FiniteSets, TLC

VARIABLES
    counters,   \* the six module-level flag-id counters, by prefix
    emitted,    \* every flag returned by a checker in this process, in order
    last        \* the latest operation: its name, arguments and outcome

vars == <<counters, emitted, last>>

(***************************************************************************)
(* Generic helpers                                                         *)
(***************************************************************************)
Abs(x) == IF x < 0 THEN -x ELSE x

\* The second of two numbers, whichever is greater.
Max2Second(a, b) == b

Max2(a, b) == IF a > b THEN a ELSE b

InSeq(s, x) == \E i \in 1..Len(s) : s[i] = x

RECURSIVE SumSeq(_)
SumSeq(s) == IF s = <<>> THEN 0 ELSE Head(s) + SumSeq(Tail(s))

RECURSIVE Flatten(_)
Flatten(ss) == IF ss = <<>> THEN <<>> ELSE Head(ss) \o Flatten(Tail(ss))

(***************************************************************************)
(* Cells and tables                                                        *)
(***************************************************************************)
NaN == [t |-> "nan"]

None == [t |-> "none"]

Num(v) == [t |-> "num", v |-> v]

Str(s) == [t |-> "str", s |-> s]

Bool(b) == [t |-> "bool", b |-> b]

\* pd.isna / pd.notna on a scalar
isna(c) == c.t \in {"nan", "none"}

notna(c) == ~isna(c)

IsNum(c) == c.t = "num"

\* row.get(col, default)
get(row, col, default) == IF col \in DOMAIN row THEN row[col] ELSE default

\* col in df.columns
HasCol(df, col) == InSeq(df.cols, col)

\* df[col], as the sequence of its cells
Column(df, col) == [i \in 1..Len(df.rows) |-> df.rows[i][col]]

\* series.dropna()
dropna(col) == SelectSeq(col, notna)

\* pd.api.types.is_numeric_dtype: a column that holds a text is of object dtype
is_numeric_dtype(col) == \A i \in 1..Len(col) : col[i].t \in {"num", "nan", "bool"}

\* An ordering comparison of a column with a number raises TypeError when a
\* cell holds a text.
ComparisonRaises(col) == \E i \in 1..Len(col) : col[i].t = "str"

\* str(x) of a cell, as far as the substring tests of the rules read it
CellStr(c) == IF c.t = "str" THEN c.s ELSE "nan"

\* A test that excludes no episode type.
IsConservativeNever(c) == FALSE

\* "Conservative" in str(ep_type)
IsConservative(c) == CellStr(c) \in {"Conservative LBP", "Conservative Joint"}

(***************************************************************************)
(* Flags, results and identifiers                                          *)
(***************************************************************************)
\* related_metrics of a flag built without any: the empty dict
NoRelated == [none |-> TRUE]

\* A ValidationFlag before its identifier is attached.
Flag(sev, cat, metric, value, ep, cid, desc, related) ==
    [flag_id |-> <<>>, severity |-> sev, category |-> cat, metric_name |-> metric,
     metric_value |-> value, episode_type |-> ep, contract_id |-> cid,
     description |-> desc, related_metrics |-> related]

\* A part of a checker that ran to its end and built the flags fl.
Ok(fl) == [fl |-> fl, n |-> Len(fl), ex |-> FALSE]

\* A part of a checker left by an exception after n calls of _next_id().
Raise(n) == [fl |-> <<>>, n |-> n, ex |-> TRUE]

\* Sequential composition: b runs only if a did not raise.
Then(a, b) ==
    IF a.ex THEN a
    ELSE [fl |-> a.fl \o b.fl, n |-> a.n + b.n, ex |-> b.ex]

RECURSIVE ThenAll(_)
ThenAll(parts) ==
    IF parts = <<>> THEN Ok(<<>>)
    ELSE Then(Head(parts), ThenAll(Tail(parts)))

\* The decimal digits of n, most significant first.
RECURSIVE DecDigits(_)
DecDigits(n) == IF n < 10 THEN <<n>> ELSE Append(DecDigits(n \div 10), n % 10)

\* f"{n:03d}": zero-padded to at least three digits.
Fmt03d(n) ==
    LET d == DecDigits(n)
    IN  IF Len(d) >= 3 THEN d
        ELSE [i \in 1..(3 - Len(d)) |-> 0] \o d

\* The number a digit string denotes.
RECURSIVE DigitsValue(_)
DigitsValue(d) ==
    IF d = <<>> THEN 0
    ELSE 10 * DigitsValue(SubSeq(d, 1, Len(d) - 1)) + d[Len(d)]

Prefixes == {"SCHEMA", "ARITH", "RANGE", "CROSS", "MSK", "ONC"}

\* A counter that starts over with every call.
_next_id_reset(ctr) == 1

\* The counter update of _next_id(): counter += 1.
_next_id(ctr) == ctr + 1

\* A counter that forgets the identifiers a checker drew.
AdvanceLost(ctr, k) == ctr

\* The counter after k calls of _next_id().
RECURSIVE Advance(_, _)
Advance(ctr, k) == IF k = 0 THEN ctr ELSE Advance(_next_id(ctr), k - 1)

\* The flags of a result, each with the identifier _next_id() gave it.
RECURSIVE NumberFlags(_, _, _)
NumberFlags(prefix, ctr, fl) ==
    IF fl = <<>> THEN <<>>
    ELSE LET c == _next_id(ctr)
         IN  <<[Head(fl) EXCEPT !.flag_id = <<prefix, Fmt03d(c)>>]>>
             \o NumberFlags(prefix, c, Tail(fl))

IdPrefix(flag) == flag.flag_id[1]

IdSuffix(flag) == DigitsValue(flag.flag_id[2])

(***************************************************************************)
(* validation/schema.py                                                    *)
(***************************************************************************)
EXPECTED_COLUMNS(dataset_name) ==
    CASE dataset_name = "msk_episodes" ->
           <<"episode_type", "episode_count", "avg_episode_cost", "target_price",
             "total_cost", "total_target", "variance_pct", "implant_cost_avg",
             "facility_cost_avg", "professional_cost_avg", "post_acute_cost_avg",
             "readmission_cost_avg", "discharge_home_pct", "discharge_snf_pct",
             "discharge_irf_pct", "discharge_other_pct", "readmission_rate",
             "er_visit_rate_90d", "ssi_rate", "revision_rate_12mo", "avg_los_days",
             "avg_opioid_mme_discharge", "prom_collection_rate",
             "prom_improvement_rate", "prior_year_episode_count",
             "prior_year_avg_cost", "risk_score_actual", "risk_score_expected">>
      [] dataset_name = "msk_quality" ->
           <<"measure_name", "measure_id", "numerator", "denominator", "rate",
             "target", "max_points", "points_earned", "prior_year_rate",
             "benchmark_50th", "benchmark_90th">>
      [] dataset_name = "onc_episodes" ->
           <<"cancer_type", "stage_group", "line_of_therapy", "episode_count",
             "avg_episode_cost", "target_price", "total_cost", "total_target",
             "variance_pct", "drug_cost_avg", "administration_cost_avg",
             "inpatient_cost_avg", "er_cost_avg", "imaging_cost_avg", "lab_cost_avg",
             "supportive_care_cost_avg", "other_cost_avg", "pathway_adherence_rate",
             "pathway_regimen_pct", "non_pathway_regimen_pct",
             "biosimilar_utilization_rate", "office_infusion_pct",
             "hopd_infusion_pct", "hospitalization_rate", "er_visit_rate",
             "prior_year_episode_count", "prior_year_avg_cost",
             "risk_score_actual", "risk_score_expected">>
      [] dataset_name = "onc_quality" ->
           <<"measure_name", "measure_id", "numerator", "denominator", "rate",
             "target", "max_points", "points_earned", "prior_year_rate",
             "national_benchmark">>
      [] dataset_name = "onc_drug_detail" ->
           <<"drug_category", "drug_name", "is_biosimilar", "is_pathway",
             "cancer_types_used", "total_claims", "total_cost",
             "avg_cost_per_claim", "site_of_service_office_pct",
             "site_of_service_hopd_pct", "site_of_service_home_pct",
             "prior_year_total_cost", "prior_year_claims", "fda_approval_date",
             "is_novel_therapy">>
      [] OTHER -> <<>>

CRITICAL_FIELDS(dataset_name) ==
    CASE dataset_name = "msk_episodes" ->
           <<"episode_type", "episode_count", "avg_episode_cost", "target_price">>
      [] dataset_name = "msk_quality" ->
           <<"measure_name", "measure_id", "max_points", "points_earned">>
      [] dataset_name = "onc_episodes" ->
           <<"cancer_type", "episode_count", "avg_episode_cost", "target_price">>
      [] dataset_name = "onc_quality" ->
           <<"measure_name", "measure_id", "max_points", "points_earned">>
      [] dataset_name = "onc_drug_detail" ->
           <<"drug_name", "total_claims", "total_cost">>
      [] OTHER -> <<>>

NUMERIC_COLUMNS(dataset_name) ==
    CASE dataset_name = "msk_episodes" ->
           <<"episode_count", "avg_episode_cost", "target_price", "total_cost",
             "total_target", "variance_pct", "implant_cost_avg",
             "facility_cost_avg", "professional_cost_avg", "post_acute_cost_avg",
             "readmission_cost_avg", "discharge_home_pct", "discharge_snf_pct",
             "discharge_irf_pct", "discharge_other_pct", "readmission_rate",
             "er_visit_rate_90d", "ssi_rate", "revision_rate_12mo", "avg_los_days",
             "avg_opioid_mme_discharge", "prom_collection_rate",
             "prom_improvement_rate", "prior_year_episode_count",
             "prior_year_avg_cost", "risk_score_actual", "risk_score_expected">>
      [] dataset_name = "onc_episodes" ->
           <<"episode_count", "avg_episode_cost", "target_price", "total_cost",
             "total_target", "variance_pct", "drug_cost_avg",
             "administration_cost_avg", "inpatient_cost_avg", "er_cost_avg",
             "imaging_cost_avg", "lab_cost_avg", "supportive_care_cost_avg",
             "other_cost_avg", "pathway_adherence_rate", "pathway_regimen_pct",
             "non_pathway_regimen_pct", "biosimilar_utilization_rate",
             "office_infusion_pct", "hopd_infusion_pct", "hospitalization_rate",
             "er_visit_rate", "prior_year_episode_count", "prior_year_avg_cost",
             "risk_score_actual", "risk_score_expected">>
      [] OTHER -> <<>>

RATE_COLUMNS(dataset_name) ==
    CASE dataset_name = "msk_episodes" ->
           <<"discharge_home_pct", "discharge_snf_pct", "discharge_irf_pct",
             "discharge_other_pct", "readmission_rate", "er_visit_rate_90d",
             "ssi_rate", "revision_rate_12mo", "prom_collection_rate",
             "prom_improvement_rate">>
      [] dataset_name = "onc_episodes" ->
           <<"pathway_adherence_rate", "pathway_regimen_pct",
             "non_pathway_regimen_pct", "biosimilar_utilization_rate",
             "office_infusion_pct", "hopd_infusion_pct", "hospitalization_rate",
             "er_visit_rate">>
      [] OTHER -> <<>>

\* "cost" in c.lower(), over the column names of the tables
CostInName(c) ==
    c \in {"avg_episode_cost", "total_cost", "implant_cost_avg",
           "facility_cost_avg", "professional_cost_avg", "post_acute_cost_avg",
           "readmission_cost_avg", "prior_year_avg_cost", "drug_cost_avg",
           "administration_cost_avg", "inpatient_cost_avg", "er_cost_avg",
           "imaging_cost_avg", "lab_cost_avg", "supportive_care_cost_avg",
           "other_cost_avg", "avg_cost_per_claim", "prior_year_total_cost",
           "extra_cost_note"}

\* The cells of a numeric column that are negative numbers.
Negatives(col) == SelectSeq(col, LAMBDA c : c.t = "num" /\ c.v < 0)

RECURSIVE MaxCell(_)
MaxCell(col) ==
    IF Len(col) = 1 THEN col[1].v ELSE Max2(col[1].v, MaxCell(Tail(col)))

\* 1. Column presence
SchemaColumnPresence(df, dataset_name, contract_id) ==
    LET expected == EXPECTED_COLUMNS(dataset_name)
        missing  == SelectSeq(expected, LAMBDA c : ~HasCol(df, c))
        extra    == SelectSeq(df.cols, LAMBDA c : ~InSeq(expected, c))
    IN  Ok([i \in 1..Len(missing) |->
               Flag("RED", "schema", missing[i], <<>>, "ALL", contract_id,
                    "missing_column", NoRelated)]
           \o
           [i \in 1..Len(extra) |->
               Flag("YELLOW", "schema", extra[i], <<>>, "ALL", contract_id,
                    "unexpected_column", NoRelated)])

\* 2. Data types: one designated numeric column
SchemaTypeCheck(df, col, contract_id) ==
    IF ~HasCol(df, col) THEN Ok(<<>>)
    ELSE LET non_null == dropna(Column(df, col))
         IN  IF Len(non_null) = 0 THEN Ok(<<>>)
             ELSE IF ~is_numeric_dtype(non_null)
                  THEN Ok(<<Flag("RED", "schema", col, <<>>, "ALL", contract_id,
                                 "not_numeric", NoRelated)>>)
                  ELSE Ok(<<>>)

\* 3. Nulls in one critical field
SchemaCriticalCheck(df, col, contract_id) ==
    IF ~HasCol(df, col) THEN Ok(<<>>)
    ELSE LET null_count == Len(SelectSeq(Column(df, col), isna))
         IN  IF null_count > 0
             THEN Ok(<<Flag("RED", "schema", col, <<null_count>>, "ALL",
                            contract_id, "critical_nulls", NoRelated)>>)
             ELSE Ok(<<>>)

\* 4. episode_count >= 0
SchemaEpisodeCount(df, contract_id) ==
    IF ~HasCol(df, "episode_count") THEN Ok(<<>>)
    ELSE LET col == Column(df, "episode_count")
         IN  IF ComparisonRaises(col) THEN Raise(0)
             ELSE LET neg == Negatives(col)
                  IN  IF Len(neg) > 0
                      THEN Ok(<<Flag("RED", "schema", "episode_count",
                                     [i \in 1..Len(neg) |-> neg[i].v], "ALL",
                                     contract_id, "negative_episode_count", NoRelated)>>)
                      ELSE Ok(<<>>)

\* 4. costs >= 0, one cost column
SchemaCostCheck(df, col, contract_id) ==
    LET cells == Column(df, col)
    IN  IF ComparisonRaises(cells) THEN Raise(0)
        ELSE LET neg == Negatives(cells)
             IN  IF Len(neg) > 0
                 THEN Ok(<<Flag("RED", "schema", col, <<Len(neg)>>, "ALL",
                                contract_id, "negative_cost", NoRelated)>>)
                 ELSE Ok(<<>>)

\* 4. Rate columns between 0 and 1, one rate column
SchemaRateCheck(df, col, contract_id) ==
    IF ~HasCol(df, col) THEN Ok(<<>>)
    ELSE LET non_null == dropna(Column(df, col))
         IN  IF Len(non_null) = 0 THEN Ok(<<>>)
             ELSE IF ComparisonRaises(non_null) THEN Raise(0)
             ELSE LET out_of_range ==
                          SelectSeq(non_null, LAMBDA c : c.v < 0 \/ c.v > 1000)
                      mx == MaxCell(non_null)
                  IN  IF Len(out_of_range) = 0 THEN Ok(<<>>)
                      ELSE IF mx > 1000 /\ mx <= 100000
                           THEN Ok(<<Flag("YELLOW", "schema", col, <<mx>>, "ALL",
                                          contract_id, "rate_scale_0_100", NoRelated)>>)
                           ELSE Ok(<<Flag("RED", "schema", col,
                                          <<Len(out_of_range)>>, "ALL",
                                          contract_id, "rate_out_of_range", NoRelated)>>)

disp_cols ==
    <<"discharge_home_pct", "discharge_snf_pct", "discharge_irf_pct",
      "discharge_other_pct">>

\* Discharge dispositions of one row sum to about 100%
SchemaDispositionRow(row, contract_id) ==
    LET ep_type == get(row, "episode_type", Str("unknown"))
        vals    == SelectSeq([i \in 1..4 |-> row[disp_cols[i]]], notna)
    IN  IF IsConservative(ep_type) THEN Ok(<<>>)
        ELSE IF Len(vals) = 0 THEN Ok(<<>>)
        ELSE IF \E i \in 1..Len(vals) : vals[i].t = "str" THEN Raise(0)
        ELSE LET total == SumSeq([i \in 1..Len(vals) |-> vals[i].v])
             IN  IF Abs(total - 1000) > 20
                 THEN Ok(<<Flag("YELLOW", "schema", "discharge_disposition_sum",
                                <<total>>, CellStr(ep_type), contract_id,
                                "disposition_sum", NoRelated)>>)
                 ELSE Ok(<<>>)

SchemaDisposition(df, dataset_name, contract_id) ==
    IF dataset_name = "msk_episodes" /\ \A i \in 1..4 : HasCol(df, disp_cols[i])
    THEN ThenAll([i \in 1..Len(df.rows) |->
                     SchemaDispositionRow(df.rows[i], contract_id)])
    ELSE Ok(<<>>)

\* A pass flag on the wrong occasion: when there are findings.
SchemaPassFlagInverted(flags, contract_id) ==
    IF flags # <<>>
    THEN <<Flag("GREEN", "schema", "schema_check", <<>>, "ALL", contract_id,
                "pass", NoRelated)>>
    ELSE <<>>

\* All checks passed notification
SchemaPassFlag(flags, contract_id) ==
    IF flags = <<>>
    THEN <<Flag("GREEN", "schema", "schema_check", <<>>, "ALL", contract_id,
                "pass", NoRelated)>>
    ELSE <<>>

validate_schema(df, dataset_name, contract) ==
    LET contract_id  == contract.contract_id
        numeric_cols == NUMERIC_COLUMNS(dataset_name)
        critical     == CRITICAL_FIELDS(dataset_name)
        rate_cols    == RATE_COLUMNS(dataset_name)
        cost_cols    == SelectSeq(df.cols,
                                  LAMBDA c : CostInName(c) /\ InSeq(numeric_cols, c))
        checks == ThenAll(<<
            SchemaColumnPresence(df, dataset_name, contract_id),
            ThenAll([i \in 1..Len(numeric_cols) |->
                        SchemaTypeCheck(df, numeric_cols[i], contract_id)]),
            ThenAll([i \in 1..Len(critical) |->
                        SchemaCriticalCheck(df, critical[i], contract_id)]),
            SchemaEpisodeCount(df, contract_id),
            ThenAll([i \in 1..Len(cost_cols) |->
                        SchemaCostCheck(df, cost_cols[i], contract_id)]),
            ThenAll([i \in 1..Len(rate_cols) |->
                        SchemaRateCheck(df, rate_cols[i], contract_id)]),
            SchemaDisposition(df, dataset_name, contract_id) >>)
    IN  IF checks.ex THEN checks
        ELSE Then(checks, Ok(SchemaPassFlag(checks.fl, contract_id)))

(***************************************************************************)
(* Labels and measure identifiers                                          *)
(***************************************************************************)
\* dict.get(key, default) on the contract
cget(contract, key, default) ==
    IF key \in DOMAIN contract THEN contract[key] ELSE default

\* The text of a cell inside an f-string; an absent text column gives ''.
LabelPart(row, col) == IF col \in DOMAIN row THEN CellStr(row[col]) ELSE ""

\* f"{cancer} {stage} {line}".strip(), for parts without blanks of their own
OncLabel(row) ==
    LET a == LabelPart(row, "cancer_type")
        b == LabelPart(row, "stage_group")
        c == LabelPart(row, "line_of_therapy")
    IN  CASE a # "" /\ c # "" -> a \o " " \o b \o " " \o c
          [] a # "" /\ c = "" /\ b # "" -> a \o " " \o b
          [] a # "" /\ c = "" /\ b = "" -> a
          [] a = "" /\ c # "" /\ b # "" -> b \o " " \o c
          [] a = "" /\ c # "" /\ b = "" -> c
          [] OTHER -> b

\* measure_id.str.contains("COMP", na=False), over the identifiers used
CompIds == {"MSK-Q-COMP", "ONC-Q-COMP"}

IsComp(cell) == cell.t = "str" /\ cell.s \in CompIds

\* df[col].str raises KeyError for an absent column and AttributeError for a
\* column of rows none of which holds a text.
StrAccessorRaises(df, col) ==
    \/ ~HasCol(df, col)
    \/ /\ Len(df.rows) > 0
       /\ \A i \in 1..Len(df.rows) : df.rows[i][col].t # "str"

\* series.sum(): missing values are skipped
ColumnSum(df, rows, col) ==
    SumSeq([i \in 1..Len(rows) |->
               IF rows[i][col].t = "num" THEN rows[i][col].v ELSE 0])

(***************************************************************************)
(* validation/arithmetic.py                                                *)
(***************************************************************************)
\* abs(expected - total) / total > 0.01, for total # 0
ExceedsOnePercent(expected, total) ==
    total > 0 /\ Abs(expected - total) * 100 > total

\* 1. count * avg_cost ~ total_cost
ArithCostReconciliation(count, avg_cost, total_cost, ep_label, contract_id) ==
    IF notna(avg_cost) /\ notna(total_cost) /\ total_cost.v # 0
       /\ ExceedsOnePercent(count.v * avg_cost.v, total_cost.v)
    THEN <<Flag("RED", "arithmetic", "episode_cost_reconciliation",
                <<count.v * avg_cost.v>>, ep_label, contract_id,
                "cost_does_not_reconcile",
                [episode_count |-> count.v, avg_episode_cost |-> avg_cost.v,
                 total_cost |-> total_cost.v])>>
    ELSE <<>>

\* 2. count * target ~ total_target
ArithTargetReconciliation(count, target, total_target, ep_label, contract_id) ==
    IF notna(target) /\ notna(total_target) /\ total_target.v # 0
       /\ ExceedsOnePercent(count.v * target.v, total_target.v)
    THEN <<Flag("RED", "arithmetic", "target_reconciliation",
                <<count.v * target.v>>, ep_label, contract_id,
                "target_does_not_reconcile",
                [episode_count |-> count.v, target_price |-> target.v,
                 total_target |-> total_target.v])>>
    ELSE <<>>

\* 3. (avg_cost - target) / target ~ variance_pct, within 0.005
ArithVariance(avg_cost, target, variance_pct, ep_label, contract_id) ==
    IF notna(target) /\ notna(avg_cost) /\ notna(variance_pct) /\ target.v # 0
       /\ Abs(1000 * (avg_cost.v - target.v) - variance_pct.v * target.v)
            > 5 * Abs(target.v)
    THEN <<Flag("YELLOW", "arithmetic", "variance_calculation",
                <<variance_pct.v>>, ep_label, contract_id, "variance_mismatch",
                [avg_episode_cost |-> avg_cost.v, target_price |-> target.v,
                 variance_pct |-> variance_pct.v])>>
    ELSE <<>>

MskComponents ==
    <<"implant_cost_avg", "facility_cost_avg", "professional_cost_avg",
      "post_acute_cost_avg", "readmission_cost_avg">>

OncComponents ==
    <<"drug_cost_avg", "administration_cost_avg", "inpatient_cost_avg",
      "er_cost_avg", "imaging_cost_avg", "lab_cost_avg",
      "supportive_care_cost_avg", "other_cost_avg">>

\* 4, 4b. The cost components sum to avg_episode_cost within 5%
ArithComponentSum(row, components, avg_cost, ep_label, contract_id) ==
    LET comp_vals == [i \in 1..Len(components) |-> get(row, components[i], NaN)]
        non_null  == SelectSeq(comp_vals, notna)
        comp_sum  == SumSeq([i \in 1..Len(non_null) |-> non_null[i].v])
    IN  IF Len(non_null) > 0 /\ notna(avg_cost) /\ avg_cost.v > 0
           /\ Abs(comp_sum - avg_cost.v) * 100 > 5 * avg_cost.v
        THEN <<Flag("YELLOW", "arithmetic", "cost_component_sum", <<comp_sum>>,
                    ep_label, contract_id, "components_do_not_sum", NoRelated)>>
        ELSE <<>>

\* The loop body with only the missing count skipped.
ArithEpisodeRowZeroCounted(episodes_df, row, contract_id, specialty) ==
    LET ep_label == IF HasCol(episodes_df, "episode_type")
                    THEN CellStr(get(row, "episode_type", Str("unknown")))
                    ELSE OncLabel(row)
        count        == get(row, "episode_count", Num(0))
        avg_cost     == get(row, "avg_episode_cost", Num(0))
        target       == get(row, "target_price", Num(0))
        total_cost   == get(row, "total_cost", Num(0))
        total_target == get(row, "total_target", Num(0))
        variance_pct == get(row, "variance_pct", Num(0))
    IN  IF isna(count) THEN <<>>
        ELSE ArithCostReconciliation(count, avg_cost, total_cost, ep_label,
                                     contract_id)
             \o ArithTargetReconciliation(count, target, total_target, ep_label,
                                          contract_id)
             \o ArithVariance(avg_cost, target, variance_pct, ep_label,
                              contract_id)
             \o (IF specialty = "MSK" /\ HasCol(episodes_df, "implant_cost_avg")
                 THEN ArithComponentSum(row, MskComponents, avg_cost, ep_label,
                                        contract_id)
                 ELSE <<>>)
             \o (IF specialty = "Oncology" /\ HasCol(episodes_df, "drug_cost_avg")
                 THEN ArithComponentSum(row, OncComponents, avg_cost, ep_label,
                                        contract_id)
                 ELSE <<>>)

\* The body of the loop over the episode rows
ArithEpisodeRow(episodes_df, row, contract_id, specialty) ==
    LET ep_label == IF HasCol(episodes_df, "episode_type")
                    THEN CellStr(get(row, "episode_type", Str("unknown")))
                    ELSE OncLabel(row)
        count        == get(row, "episode_count", Num(0))
        avg_cost     == get(row, "avg_episode_cost", Num(0))
        target       == get(row, "target_price", Num(0))
        total_cost   == get(row, "total_cost", Num(0))
        total_target == get(row, "total_target", Num(0))
        variance_pct == get(row, "variance_pct", Num(0))
    IN  IF isna(count) \/ count.v = 0 THEN <<>>
        ELSE ArithCostReconciliation(count, avg_cost, total_cost, ep_label,
                                     contract_id)
             \o ArithTargetReconciliation(count, target, total_target, ep_label,
                                          contract_id)
             \o ArithVariance(avg_cost, target, variance_pct, ep_label,
                              contract_id)
             \o (IF specialty = "MSK" /\ HasCol(episodes_df, "implant_cost_avg")
                 THEN ArithComponentSum(row, MskComponents, avg_cost, ep_label,
                                        contract_id)
                 ELSE <<>>)
             \o (IF specialty = "Oncology" /\ HasCol(episodes_df, "drug_cost_avg")
                 THEN ArithComponentSum(row, OncComponents, avg_cost, ep_label,
                                        contract_id)
                 ELSE <<>>)

\* 6. Quality score arithmetic
ArithQualityPoints(quality_df, contract_id) ==
    IF StrAccessorRaises(quality_df, "measure_id") THEN Raise(0)
    ELSE LET quality_no_comp ==
                 SelectSeq(quality_df.rows, LAMBDA r : ~IsComp(r["measure_id"]))
             comp_row ==
                 SelectSeq(quality_df.rows, LAMBDA r : IsComp(r["measure_id"]))
         IN  IF Len(comp_row) = 0 THEN Ok(<<>>)
             ELSE IF ~HasCol(quality_df, "points_earned")
                     \/ ~HasCol(quality_df, "max_points") THEN Raise(0)
             ELSE LET reported_earned == comp_row[1]["points_earned"]
                      calculated_earned ==
                          ColumnSum(quality_df, quality_no_comp, "points_earned")
                  IN  IF notna(reported_earned)
                         /\ calculated_earned # reported_earned.v
                      THEN Ok(<<Flag("YELLOW", "arithmetic", "quality_points_sum",
                                     <<reported_earned.v>>, "ALL", contract_id,
                                     "composite_points_mismatch",
                                     [calculated_earned |->
                                          calculated_earned])>>)
                      ELSE Ok(<<>>)

\* 7. numerator / denominator ~ rate, within 0.005
ArithQualityRate(row, contract_id) ==
    LET num   == get(row, "numerator", NaN)
        denom == get(row, "denominator", NaN)
        rate  == get(row, "rate", NaN)
    IN  IF notna(num) /\ notna(denom) /\ notna(rate) /\ denom.v > 0
           /\ Abs(1000 * num.v - rate.v * denom.v) > 5 * denom.v
        THEN <<Flag("RED", "arithmetic", "quality_rate_calculation", <<rate.v>>,
                    "Quality", contract_id, "rate_mismatch",
                    [numerator |-> num.v, denominator |-> denom.v,
                     rate |-> rate.v])>>
        ELSE <<>>

\* 8. attributed_members * 12 ~ member_months, within 5%
ArithMemberMonths(contract) ==
    LET members == cget(contract, "attributed_members", 0)
        mm      == cget(contract, "member_months", 0)
    IN  IF members > 0 /\ mm > 0 /\ Abs(members * 12 - mm) * 100 > 5 * mm
        THEN <<Flag("YELLOW", "arithmetic", "member_months_check", <<mm>>, "ALL",
                    contract.contract_id, "member_months_mismatch", NoRelated)>>
        ELSE <<>>

validate_arithmetic(episodes_df, quality_df, contract) ==
    LET contract_id == contract.contract_id
        specialty   == cget(contract, "specialty", "")
        quality_no_comp ==
            SelectSeq(quality_df.rows, LAMBDA r : ~IsComp(r["measure_id"]))
    IN  ThenAll(<<
            Ok(Flatten([i \in 1..Len(episodes_df.rows) |->
                  ArithEpisodeRow(episodes_df, episodes_df.rows[i], contract_id,
                                  specialty)])),
            ArithQualityPoints(quality_df, contract_id),
            Ok(Flatten([i \in 1..Len(quality_no_comp) |->
                  ArithQualityRate(quality_no_comp[i], contract_id)])),
            Ok(ArithMemberMonths(contract)) >>)

(***************************************************************************)
(* validation/range_checks.py                                              *)
(***************************************************************************)
MSK_EP_TYPE_MAP(ep_type) ==
    CASE ep_type = Str("TKR") -> "TKR"
      [] ep_type = Str("THR") -> "THR"
      [] ep_type = Str("Spinal Fusion 1-2") -> "spinal_fusion_1_2"
      [] ep_type = Str("Spinal Fusion 3+") -> "spinal_fusion_3_plus"
      [] ep_type = Str("Knee Arthroscopy") -> "knee_arthroscopy"
      [] ep_type = Str("Rotator Cuff") -> "rotator_cuff"
      [] ep_type = Str("Conservative LBP") -> "conservative_lbp"
      [] ep_type = Str("Conservative Joint") -> "conservative_joint"
      [] OTHER -> ""

ONC_EP_TYPE_MAP(cancer, stage, line) ==
    LET key == <<CellStr(cancer), CellStr(stage), CellStr(line)>>
    IN  CASE key = <<"Breast", "Early", "1L">> -> "breast_early"
          [] key = <<"Breast", "Metastatic", "1L">> -> "breast_metastatic"
          [] key = <<"Breast", "Metastatic", "2L+">> -> "breast_metastatic"
          [] key = <<"Lung", "NSCLC", "1L">> -> "lung_nsclc_1L"
          [] key = <<"Lung", "NSCLC", "2L+">> -> "lung_nsclc_2L_plus"
          [] key = <<"Colorectal", "Adjuvant", "1L">> -> "colorectal_adjuvant"
          [] key = <<"Colorectal", "Metastatic", "1L">> -> "colorectal_metastatic"
          [] key = <<"Prostate", "Early", "1L">> -> "prostate_early"
          [] key = <<"Prostate", "Advanced", "1L">> -> "prostate_advanced"
          [] OTHER -> ""

\* A lookup that forgets the second spelling of the key.
RangeGetPrimary(range_def, k1, k2) ==
    IF k1 \in DOMAIN range_def THEN Num(range_def[k1]) ELSE None

\* range_def.get(k1, range_def.get(k2)), None when neither key is there
RangeGet(range_def, k1, k2) ==
    IF k1 \in DOMAIN range_def THEN Num(range_def[k1])
    ELSE IF k2 \in DOMAIN range_def THEN Num(range_def[k2])
    ELSE None

\* The flag of _check_range as a sequence: empty for None
_check_range(value, range_def, metric_name, ep_label, contract_id) ==
    LET min_val  == RangeGet(range_def, "min", "min_acceptable")
        max_val  == RangeGet(range_def, "max", "max_acceptable")
        expected == RangeGet(range_def, "expected", "target")
        target   == RangeGet(range_def, "target", "target")
        F(sev, desc) ==
            <<Flag(sev, "range", metric_name, <<value.v>>, ep_label, contract_id,
                   desc, NoRelated)>>
    IN  IF isna(value) THEN <<>>
        ELSE IF min_val # None /\ max_val # None
        THEN IF value.v < min_val.v \/ value.v > max_val.v
             THEN F("RED", "outside_bounds")
             ELSE IF expected # None /\ max_val.v - min_val.v > 0
                     /\ Abs(value.v - expected.v) * 10
                          > 4 * (max_val.v - min_val.v)
             THEN F("YELLOW", "deviates_from_expected")
             ELSE <<>>
        ELSE IF max_val # None
        THEN IF value.v > max_val.v THEN F("RED", "exceeds_max_acceptable")
             ELSE IF target # None /\ value.v > target.v
             THEN F("YELLOW", "exceeds_target")
             ELSE <<>>
        ELSE <<>>

\* The checks of one MSK row against the table of ranges named key, for the
\* listed (column, reference key) pairs
RangeRowChecks(row, ranges, pairs, contract_id) ==
    Flatten([k \in 1..Len(pairs) |->
        IF notna(get(row, pairs[k][1], None)) /\ pairs[k][2] \in DOMAIN ranges
        THEN _check_range(get(row, pairs[k][1], None), ranges[pairs[k][2]],
                          pairs[k][1],
                          CellStr(get(row, "episode_type", Str(""))), contract_id)
        ELSE <<>>])

\* The pathway adherence benchmark of one oncology row
RangePathwayAdherence(row, ref_key, pathway_benchmarks, contract_id) ==
    LET adherence == get(row, "pathway_adherence_rate", None)
    IN  IF ref_key # "" /\ ref_key \in DOMAIN pathway_benchmarks /\ notna(adherence)
        THEN LET benchmark == pathway_benchmarks[ref_key]
                 min_acceptable == cget(benchmark, "min_acceptable", 0)
                 expected == cget(benchmark, "expected", 0)
             IN  IF adherence.v < min_acceptable
                 THEN <<Flag("RED", "range", "pathway_adherence_rate",
                             <<adherence.v>>, OncLabel(row), contract_id,
                             "below_min_acceptable", NoRelated)>>
                 ELSE IF adherence.v < expected
                 THEN <<Flag("YELLOW", "range", "pathway_adherence_rate",
                             <<adherence.v>>, OncLabel(row), contract_id,
                             "below_expected", NoRelated)>>
                 ELSE <<>>
        ELSE <<>>

validate_ranges(episodes_df, reference_ranges, contract) ==
    LET contract_id == contract.contract_id
        specialty   == cget(contract, "specialty", "")
        rows        == episodes_df.rows
        cost_ranges == cget(reference_ranges, "episode_cost_ranges", <<>>)
        util_ranges == cget(reference_ranges, "utilization_ranges_ma", <<>>)
        quality_targets == cget(reference_ranges, "quality_targets", <<>>)
        pathway_benchmarks ==
            cget(reference_ranges, "pathway_adherence_benchmarks", <<>>)
        CostCheck(row, ref_key, ep_label) ==
            IF ref_key # "" /\ ref_key \in DOMAIN cost_ranges
            THEN _check_range(get(row, "avg_episode_cost", None),
                              cost_ranges[ref_key], "avg_episode_cost",
                              ep_label, contract_id)
            ELSE <<>>
        NotConservative(row) == ~IsConservative(get(row, "episode_type", Str("")))
    IN  IF specialty = "MSK"
        THEN Ok(Flatten([i \in 1..Len(rows) |->
                    CostCheck(rows[i],
                              MSK_EP_TYPE_MAP(get(rows[i], "episode_type", Str(""))),
                              CellStr(get(rows[i], "episode_type", Str(""))))])
                \o Flatten([i \in 1..Len(rows) |->
                    IF NotConservative(rows[i])
                    THEN RangeRowChecks(rows[i], util_ranges,
                             << <<"avg_opioid_mme_discharge",
                                  "opioid_mme_discharge_avg">>,
                                <<"prom_collection_rate",
                                  "prom_collection_rate">> >>, contract_id)
                    ELSE <<>>])
                \o Flatten([i \in 1..Len(rows) |->
                    IF NotConservative(rows[i])
                    THEN RangeRowChecks(rows[i], quality_targets,
                             << <<"readmission_rate", "readmit_90day">>,
                                <<"er_visit_rate_90d", "er_visit_90day">>,
                                <<"ssi_rate", "ssi_rate">>,
                                <<"revision_rate_12mo", "revision_12mo">> >>,
                             contract_id)
                    ELSE <<>>]))
        ELSE IF specialty = "Oncology"
        THEN Ok(Flatten([i \in 1..Len(rows) |->
                    LET ref_key == ONC_EP_TYPE_MAP(
                                       get(rows[i], "cancer_type", Str("")),
                                       get(rows[i], "stage_group", Str("")),
                                       get(rows[i], "line_of_therapy", Str("")))
                    IN  CostCheck(rows[i], ref_key, OncLabel(rows[i]))
                        \o RangePathwayAdherence(rows[i], ref_key,
                                                 pathway_benchmarks,
                                                 contract_id)]))
        ELSE Ok(<<>>)

(***************************************************************************)
(* validation/cross_metric.py                                              *)
(***************************************************************************)
\* df[df["episode_type"] == ep]
RowsOfType(df, ep) ==
    SelectSeq(df.rows, LAMBDA r : r["episode_type"] = Str(ep))

\* 1. Discharge shift + ER correlation, against the documented prior year of
\* TKR (home 0.62, ER 0.08)
CrossDischargeShift(row, contract_id) ==
    LET ep_type  == get(row, "episode_type", Str(""))
        home_pct == get(row, "discharge_home_pct", None)
        er_rate  == get(row, "er_visit_rate_90d", None)
    IN  IF ~IsConservative(ep_type) /\ ep_type = Str("TKR")
           /\ notna(home_pct) /\ notna(er_rate)
           /\ home_pct.v - 620 > 100
           /\ (er_rate.v - 80) * 1000 > 500 * 80
        THEN <<Flag("RED", "cross_metric", "discharge_shift_er_correlation",
                    <<home_pct.v - 620>>, "TKR", contract_id, "discharge_shift",
                    [discharge_home_pct |-> home_pct, er_visit_rate_90d |-> er_rate,
                     readmission_rate |-> get(row, "readmission_rate", None)])>>
        ELSE <<>>

\* 2. Risk score vs benchmark calibration: abs(actual - expected) / expected > 0.10
CrossRiskScore(row, contract_id) ==
    LET actual   == get(row, "risk_score_actual", None)
        expected == get(row, "risk_score_expected", None)
    IN  IF notna(actual) /\ notna(expected) /\ expected.v > 0
           /\ Abs(actual.v - expected.v) * 10 > expected.v
        THEN <<Flag("YELLOW", "cross_metric", "risk_score_calibration",
                    <<actual.v, expected.v>>,
                    CellStr(get(row, "episode_type", Str(""))), contract_id,
                    "risk_score_mismatch",
                    [risk_score_actual |-> actual.v,
                     risk_score_expected |-> expected.v])>>
        ELSE <<>>

\* 5. Volume vs population: count / (attributed_members / 1000) > 25
CrossVolume(row, attributed_members, contract_id) ==
    LET count == get(row, "episode_count", Num(0))
    IN  IF attributed_members > 0 /\ ~(isna(count) \/ count.v = 0)
           /\ get(row, "episode_type", Str("")) = Str("Knee Arthroscopy")
           /\ count.v * 1000 > 25 * attributed_members
        THEN <<Flag("RED", "cross_metric", "volume_per_1000", <<count.v>>,
                    "Knee Arthroscopy", contract_id, "volume_above_incidence",
                    [episode_count |-> count.v,
                     attributed_members |-> attributed_members])>>
        ELSE <<>>

\* Arthroscopy-to-conservative ratio, on the first row of each type
CrossArthRatio(episodes_df, contract_id) ==
    LET arth_row == RowsOfType(episodes_df, "Knee Arthroscopy")
        cons_row == RowsOfType(episodes_df, "Conservative Joint")
    IN  IF Len(arth_row) > 0 /\ Len(cons_row) > 0
        THEN LET arth_count == get(arth_row[1], "episode_count", Num(0))
                 cons_count == get(cons_row[1], "episode_count", Num(0))
             IN  IF notna(cons_count) /\ cons_count.v > 0 /\ notna(arth_count)
                    /\ 2 * arth_count.v > cons_count.v
                 THEN <<Flag("RED", "cross_metric",
                             "arthroscopy_to_conservative_ratio",
                             <<arth_count.v, cons_count.v>>, "Knee Arthroscopy",
                             contract_id, "ratio_above_half",
                             [arthroscopy_count |-> arth_count.v,
                              conservative_joint_count |-> cons_count.v])>>
                 ELSE <<>>
        ELSE <<>>

\* 6. Conservative-to-surgical pipeline acceleration
CrossPipeline(episodes_df, contract_id) ==
    LET cons_lbp  == RowsOfType(episodes_df, "Conservative LBP")
        fusion_12 == RowsOfType(episodes_df, "Spinal Fusion 1-2")
    IN  IF Len(cons_lbp) > 0 /\ Len(fusion_12) > 0
        THEN LET cons_curr  == get(cons_lbp[1], "episode_count", Num(0))
                 cons_prior == get(cons_lbp[1], "prior_year_episode_count", Num(0))
                 fus_curr   == get(fusion_12[1], "episode_count", Num(0))
                 fus_prior  == get(fusion_12[1], "prior_year_episode_count", Num(0))
             IN  IF notna(cons_prior) /\ notna(fus_prior)
                    /\ cons_prior.v > 0 /\ fus_prior.v > 0
                    /\ notna(cons_curr) /\ notna(fus_curr)
                    /\ cons_curr.v - cons_prior.v < 0
                    /\ (fus_curr.v - fus_prior.v) * 5 > fus_prior.v
                 THEN <<Flag("RED", "cross_metric",
                             "surgical_pipeline_acceleration",
                             <<cons_curr.v, fus_curr.v>>,
                             "Conservative LBP -> Spinal Fusion", contract_id,
                             "pipeline_acceleration",
                             [cons_lbp_current |-> cons_curr.v,
                              cons_lbp_prior |-> cons_prior.v,
                              fusion_current |-> fus_curr.v,
                              fusion_prior |-> fus_prior.v])>>
                 ELSE <<>>
        ELSE <<>>

_check_msk_cross_metrics(episodes_df, quality_df, contract) ==
    LET contract_id == contract.contract_id
        attributed_members == cget(contract, "attributed_members", 0)
        rows == episodes_df.rows
    IN  ThenAll(<<
            Ok(Flatten([i \in 1..Len(rows) |->
                          CrossDischargeShift(rows[i], contract_id)])),
            Ok(Flatten([i \in 1..Len(rows) |->
                          CrossRiskScore(rows[i], contract_id)])),
            Ok(Flatten([i \in 1..Len(rows) |->
                          CrossVolume(rows[i], attributed_members, contract_id)])),
            IF ~HasCol(episodes_df, "episode_type") THEN Raise(0)
            ELSE Ok(CrossArthRatio(episodes_df, contract_id)
                    \o CrossPipeline(episodes_df, contract_id)) >>)

\* round(x) of the quotient num / den, den > 0: to the nearest integer, a tie
\* to the even one.
RoundHalfEven(num, den) ==
    LET q == num \div den
        r == num - q * den
    IN  IF 2 * r < den THEN q
        ELSE IF 2 * r > den THEN q + 1
        ELSE IF q % 2 = 0 THEN q ELSE q + 1

\* bool(x) of a cell
Truthy(c) ==
    CASE c.t = "bool" -> c.b
      [] c.t = "str"  -> c.s # ""
      [] c.t = "num"  -> c.v # 0
      [] c.t = "nan"  -> TRUE
      [] OTHER        -> FALSE

\* An estimate that takes every case for a non-pathway case.
NonPathwayCostEstAll(avg_cost, adherence, pathway_cost_est) ==
    [num |-> avg_cost, den |-> 1]

\* (avg_cost - adherence * pathway_cost_est) / (1 - adherence) as the quotient
\* num / den, the adherence in thousandths
NonPathwayCostEst(avg_cost, adherence, pathway_cost_est) ==
    [num |-> 1000 * avg_cost - adherence * pathway_cost_est,
     den |-> 1000 - adherence]

\* 3. Pathway adherence vs cost correlation, for one episode row
OncPathwayCost(row, contract_id) ==
    LET adherence == get(row, "pathway_adherence_rate", None)
        avg_cost  == get(row, "avg_episode_cost", None)
        target    == get(row, "target_price", None)
    IN  IF notna(adherence) /\ notna(avg_cost) /\ notna(target)
           /\ adherence.v < 750 /\ avg_cost.v > target.v
        THEN IF target.v = 0 THEN Raise(0)
             ELSE LET est == NonPathwayCostEst(avg_cost.v, adherence.v, target.v)
                  IN  IF /\ target.v > 0
                         /\ (avg_cost.v - target.v) * 10 > target.v
                         /\ (est.num - target.v * est.den) * 4 > target.v * est.den
                      THEN Ok(<<Flag("RED", "cross_metric",
                                     "pathway_cost_correlation",
                                     <<adherence.v, avg_cost.v - target.v>>,
                                     OncLabel(row), contract_id,
                                     "pathway_cost_correlation",
                                     [non_pathway_cost_est |-> est,
                                      avg_episode_cost |-> avg_cost.v,
                                      target_price |-> target.v,
                                      pathway_adherence |-> adherence.v,
                                      est_pathway_cost |-> target.v,
                                      est_non_pathway_cost |->
                                          RoundHalfEven(est.num, est.den)])>>)
                      ELSE Ok(<<>>)
        ELSE Ok(<<>>)

\* The measures read as failing above target, the emergency-room measure
\* forgotten.
HighIsBadWithoutEr == {"ONC-Q-002", "ONC-Q-005"}

HighIsBad == {"ONC-Q-002", "ONC-Q-005", "ONC-Q-006"}

LowIsBad == {"ONC-Q-003", "ONC-Q-004"}

\* Every end-of-life measure read as failing above its target.
EolFailingAllHigh(row) ==
    LET mid    == get(row, "measure_id", Str(""))
        rate   == get(row, "rate", Num(0))
        target == get(row, "target", Num(0))
    IN  /\ mid.t = "str" /\ mid.s \in HighIsBad \cup LowIsBad
        /\ notna(rate) /\ notna(target)
        /\ rate.v > target.v

\* One end-of-life measure misses its target.
EolFailing(row) ==
    LET mid    == get(row, "measure_id", Str(""))
        rate   == get(row, "rate", Num(0))
        target == get(row, "target", Num(0))
    IN  /\ mid.t = "str" /\ mid.s \in HighIsBad \cup LowIsBad
        /\ notna(rate) /\ notna(target)
        /\ \/ mid.s \in HighIsBad /\ rate.v > target.v
           \/ mid.s \in LowIsBad /\ rate.v < target.v

\* 4. EOL metric clustering
OncEolClustering(quality_df, contract_id) ==
    IF StrAccessorRaises(quality_df, "measure_id") THEN Raise(0)
    ELSE LET quality_no_comp ==
                 SelectSeq(quality_df.rows, LAMBDA r : ~IsComp(r["measure_id"]))
             eol_failures == Len(SelectSeq(quality_no_comp, EolFailing))
             acp_row == SelectSeq(quality_no_comp,
                                  LAMBDA r : r["measure_id"] = Str("ONC-Q-009"))
         IN  IF eol_failures < 3 THEN Ok(<<>>)
             ELSE IF Len(acp_row) > 0 /\ ~HasCol(quality_df, "rate") THEN Raise(0)
             ELSE LET acp_rate == IF Len(acp_row) > 0 THEN acp_row[1]["rate"]
                                  ELSE None
                      acp_note == notna(acp_rate) /\ acp_rate.v < 500
                  IN  Ok(<<Flag("RED", "cross_metric", "eol_systemic_failure",
                                <<eol_failures>>, "End-of-Life Care", contract_id,
                                IF acp_note THEN "eol_failure_with_acp_note"
                                ELSE "eol_failure",
                                [eol_failures |-> eol_failures,
                                 acp_rate |-> acp_rate])>>)

\* 7. Quality gate proximity
OncQualityGate(episodes_df, quality_df, contract) ==
    LET comp_row == SelectSeq(quality_df.rows, LAMBDA r : IsComp(r["measure_id"]))
    IN  IF Len(comp_row) = 0 THEN <<>>
        ELSE
        LET earned   == get(comp_row[1], "points_earned", Num(0))
            max_pts  == get(comp_row[1], "max_points", Num(0))
            gate_min == cget(contract, "quality_gate_minimum", 0)
        IN  IF ~(notna(earned) /\ notna(max_pts) /\ max_pts.v > 0) THEN <<>>
            ELSE
            \* gap = gate_min - (earned / max_pts) * 100, times max_pts
            LET gap_scaled == gate_min * max_pts.v - 100 * earned.v
                rows == episodes_df.rows
                total_savings ==
                    SumSeq([i \in 1..Len(rows) |->
                        LET tc == get(rows[i], "total_cost", Num(0))
                            tt == get(rows[i], "total_target", Num(0))
                        IN  IF notna(tc) /\ notna(tt) THEN tt.v - tc.v ELSE 0])
                sharing_rate == cget(contract, "sharing_rate_savings", 0)
            IN  IF 0 < gap_scaled /\ gap_scaled <= 5 * max_pts.v
                THEN <<Flag("RED", "cross_metric", "quality_gate_proximity",
                            <<earned.v, max_pts.v>>, "Quality Gate",
                            contract.contract_id, "near_miss",
                            [composite_earned |-> earned.v,
                             composite_max |-> max_pts.v,
                             gate_minimum |-> gate_min,
                             estimated_savings_at_risk |->
                                 RoundHalfEven(Max2(0, total_savings) * sharing_rate,
                                               1000)])>>
                ELSE IF gap_scaled > 0
                THEN <<Flag("RED", "cross_metric", "quality_gate_failure",
                            <<earned.v, max_pts.v>>, "Quality Gate",
                            contract.contract_id, "failure", NoRelated)>>
                ELSE <<>>

\* est_savings = total_claims * (hopd_pct - 0.40) * avg_cost * 0.30, as the
\* description shows it: f"{est_savings:,.0f}", in whole dollars ("nan" for
\* a missing claim count)
SiteOfServiceExcess(total_claims, hopd_pct, avg_cost) ==
    IF isna(total_claims) THEN NaN
    ELSE Num(RoundHalfEven(total_claims.v * (hopd_pct.v - 400) * avg_cost.v * 3,
                           10000))

\* 8. Biosimilar x site-of-service compounding, for one drug row
OncSiteOfService(drug, contract_id) ==
    LET avg_cost == get(drug, "avg_cost_per_claim", Num(0))
        hopd_pct == get(drug, "site_of_service_hopd_pct", Num(0))
        is_bio   == get(drug, "is_biosimilar", Bool(FALSE))
        total_claims == get(drug, "total_claims", Num(0))
    IN  IF notna(avg_cost) /\ avg_cost.v > 2000
           /\ notna(hopd_pct) /\ hopd_pct.v > 600
           /\ ~Truthy(is_bio)
        THEN <<Flag("YELLOW", "cross_metric", "site_of_service_cost",
                    <<hopd_pct.v, avg_cost.v>>, "Drug Detail", contract_id,
                    "hopd_administration",
                    [drug_name |-> get(drug, "drug_name", Str("")),
                     hopd_pct |-> hopd_pct.v, avg_cost_per_claim |-> avg_cost.v,
                     total_claims |-> total_claims,
                     est_savings |-> SiteOfServiceExcess(total_claims, hopd_pct,
                                                         avg_cost)])>>
        ELSE <<>>

\* onc_drugs_df = None
NoDf == [cols |-> <<>>, rows |-> <<>>, none |-> TRUE]

_check_onc_cross_metrics(episodes_df, quality_df, contract, onc_drugs_df) ==
    LET contract_id == contract.contract_id
        rows == episodes_df.rows
    IN  ThenAll(
            [i \in 1..Len(rows) |-> OncPathwayCost(rows[i], contract_id)]
            \o << OncEolClustering(quality_df, contract_id),
                  Ok(OncQualityGate(episodes_df, quality_df, contract)),
                  Ok(IF onc_drugs_df = NoDf THEN <<>>
                     ELSE Flatten([i \in 1..Len(onc_drugs_df.rows) |->
                              OncSiteOfService(onc_drugs_df.rows[i],
                                               contract_id)])) >>)

validate_cross_metrics(episodes_df, quality_df, contract, onc_drugs_df) ==
    LET specialty == cget(contract, "specialty", "")
    IN  IF specialty = "MSK"
        THEN _check_msk_cross_metrics(episodes_df, quality_df, contract)
        ELSE IF specialty = "Oncology"
        THEN _check_onc_cross_metrics(episodes_df, quality_df, contract,
                                      onc_drugs_df)
        ELSE Ok(<<>>)

(***************************************************************************)
(* validation/msk_rules.py                                                 *)
(***************************************************************************)
\* num / den > k / 1000, for den # 0
QuotientGT(num, den, k) ==
    IF den > 0 THEN num * 1000 > k * den ELSE num * 1000 < k * den

\* max_ratio of IMPLANT_RATIO_BENCHMARKS, in thousandths; 0 for no entry
IMPLANT_RATIO_BENCHMARKS(ep_type) ==
    CASE ep_type \in {"TKR", "THR", "Rotator Cuff"} -> 200
      [] ep_type \in {"Spinal Fusion 1-2", "Spinal Fusion 3+"} -> 250
      [] ep_type = "Knee Arthroscopy" -> 100
      [] OTHER -> 0

\* 1. Implant cost ratio
MskImplantRatio(row, contract_id) ==
    LET ep_type      == CellStr(get(row, "episode_type", Str("")))
        implant_cost == get(row, "implant_cost_avg", None)
        avg_cost     == get(row, "avg_episode_cost", None)
    IN  IF IMPLANT_RATIO_BENCHMARKS(ep_type) # 0
           /\ ~(isna(implant_cost) \/ isna(avg_cost) \/ avg_cost.v = 0)
           /\ QuotientGT(implant_cost.v, avg_cost.v,
                         IMPLANT_RATIO_BENCHMARKS(ep_type))
        THEN <<Flag("RED", "specialty", "implant_cost_ratio",
                    <<implant_cost.v, avg_cost.v>>, ep_type, contract_id,
                    "implant_ratio_above_benchmark",
                    [implant_cost_avg |-> implant_cost.v,
                     avg_episode_cost |-> avg_cost.v,
                     benchmark_max |-> IMPLANT_RATIO_BENCHMARKS(ep_type)])>>
        ELSE <<>>

\* 2. Arthroscopy volume reasonableness, on the first Knee Arthroscopy row
MskArthroscopyVolume(episodes_df, attributed_members, contract_id) ==
    LET arth_row == RowsOfType(episodes_df, "Knee Arthroscopy")
    IN  IF Len(arth_row) > 0 /\ attributed_members > 0
        THEN LET arth_count == get(arth_row[1], "episode_count", Num(0))
             IN  IF notna(arth_count)
                    /\ arth_count.v * 1000 > 25 * attributed_members
                 THEN <<Flag("RED", "specialty", "arthroscopy_volume",
                             <<arth_count.v>>, "Knee Arthroscopy", contract_id,
                             "arthroscopy_rate_above_incidence",
                             [episode_count |-> arth_count.v,
                              attributed_members |-> attributed_members])>>
                 ELSE <<>>
        ELSE <<>>

\* 4. Post-acute cost efficiency
MskPostAcute(row, contract_id) ==
    LET ep_type    == CellStr(get(row, "episode_type", Str("")))
        post_acute == get(row, "post_acute_cost_avg", None)
        avg_cost   == get(row, "avg_episode_cost", None)
    IN  IF ep_type \in {"TKR", "THR"}
           /\ ~(isna(post_acute) \/ isna(avg_cost) \/ avg_cost.v = 0)
           /\ QuotientGT(post_acute.v, avg_cost.v, 200)
        THEN <<Flag("YELLOW", "specialty", "post_acute_cost_ratio",
                    <<post_acute.v, avg_cost.v>>, ep_type, contract_id,
                    "post_acute_above_fifth",
                    [post_acute_cost_avg |-> post_acute.v,
                     avg_episode_cost |-> avg_cost.v])>>
        ELSE <<>>

\* 5. Opioid prescribing
MskOpioid(row, contract_id) ==
    LET ep_type == get(row, "episode_type", Str(""))
        mme     == get(row, "avg_opioid_mme_discharge", None)
    IN  IF ~IsConservative(ep_type) /\ notna(mme) /\ mme.v > 50
        THEN <<Flag(IF mme.v > 90 THEN "RED" ELSE "YELLOW", "specialty",
                    "opioid_mme_discharge", <<mme.v>>, CellStr(ep_type),
                    contract_id, "opioid_above_guideline",
                    [avg_opioid_mme_discharge |-> mme.v])>>
        ELSE <<>>

\* 6. PROM reliability; the flag's detail formats prom_improvement_rate after
\* the identifier is drawn, and None has no such format.
MskProm(row, contract_id) ==
    LET ep_type      == get(row, "episode_type", Str(""))
        prom_coll    == get(row, "prom_collection_rate", None)
        prom_improve == get(row, "prom_improvement_rate", None)
    IN  IF ~IsConservative(ep_type) /\ notna(prom_coll) /\ prom_coll.v < 500
        THEN IF prom_improve.t = "none" THEN Raise(1)
             ELSE Ok(<<Flag("RED", "specialty", "prom_collection_reliability",
                            <<prom_coll.v>>, CellStr(ep_type), contract_id,
                            "prom_collection_low",
                            [prom_collection_rate |-> prom_coll,
                             prom_improvement_rate |-> prom_improve])>>)
        ELSE Ok(<<>>)

\* 7. Spinal fusion level distribution
MskFusion(episodes_df, contract_id) ==
    LET fus_12 == RowsOfType(episodes_df, "Spinal Fusion 1-2")
        fus_3p == RowsOfType(episodes_df, "Spinal Fusion 3+")
    IN  IF Len(fus_12) > 0 /\ Len(fus_3p) > 0
        THEN LET count_12 == get(fus_12[1], "episode_count", Num(0))
                 count_3p == get(fus_3p[1], "episode_count", Num(0))
             IN  IF notna(count_12) /\ notna(count_3p)
                    /\ count_12.v + count_3p.v > 0
                    /\ count_3p.v * 10 > 3 * (count_12.v + count_3p.v)
                 THEN <<Flag("YELLOW", "specialty",
                             "fusion_complexity_distribution",
                             <<count_3p.v, count_12.v + count_3p.v>>,
                             "Spinal Fusion", contract_id, "fusion_3p_share",
                             [fusion_1_2_count |-> count_12.v,
                              fusion_3_plus_count |-> count_3p.v])>>
                 ELSE <<>>
        ELSE <<>>

validate_msk_rules(episodes_df, quality_df, reference_ranges, contract) ==
    LET contract_id == contract.contract_id
        attributed_members == cget(contract, "attributed_members", 0)
        rows == episodes_df.rows
        PerRow(Rule(_, _)) ==
            Ok(Flatten([i \in 1..Len(rows) |-> Rule(rows[i], contract_id)]))
    IN  ThenAll(
            << PerRow(MskImplantRatio),
               IF ~HasCol(episodes_df, "episode_type") THEN Raise(0)
               ELSE Ok(MskArthroscopyVolume(episodes_df, attributed_members,
                                            contract_id)),
               PerRow(MskPostAcute),
               PerRow(MskOpioid) >>
            \o [i \in 1..Len(rows) |-> MskProm(rows[i], contract_id)]
            \o << Ok(MskFusion(episodes_df, contract_id)) >>)

(***************************************************************************)
(* validation/onc_rules.py                                                 *)
(***************************************************************************)
\* int(x) of the quotient num / den, den > 0: truncation towards zero
IntTrunc(num, den) ==
    IF num >= 0 THEN num \div den ELSE -((-num) \div den)

\* Rule 1: pathway adherence cost correlation, for one episode row
OncRulePathwayRow(row, contract) ==
    LET pathway_target == cget(contract, "pathway_adherence_target", 800)
        adherence == get(row, "pathway_adherence_rate", None)
        avg_cost  == get(row, "avg_episode_cost", None)
        target    == get(row, "target_price", None)
    IN  IF isna(adherence) \/ isna(avg_cost) \/ isna(target) THEN Ok(<<>>)
        ELSE IF adherence.v >= pathway_target \/ avg_cost.v <= target.v
        THEN Ok(<<>>)
        ELSE IF target.v = 0 THEN Raise(0)
        ELSE IF target.v < 0 \/ (avg_cost.v - target.v) * 20 <= target.v
        THEN Ok(<<>>)
        ELSE IF ~(adherence.v < 1000) THEN Ok(<<>>)
        ELSE
        LET est == NonPathwayCostEst(avg_cost.v, adherence.v, target.v)
            \* cost_diff = non_pathway_cost_est - pathway_cost_est, times est.den
            cost_diff_num == est.num - target.v * est.den
            episode_count == get(row, "episode_count", Num(0))
        IN  IF ~(cost_diff_num * 4 > target.v * est.den) THEN Ok(<<>>)
            ELSE IF isna(episode_count) THEN Raise(0)
            ELSE
            LET non_pathway_count ==
                    IntTrunc(episode_count.v * (1000 - adherence.v), 1000)
            IN  Ok(<<Flag("RED", "specialty", "pathway_cost_correlation",
                          <<adherence.v, avg_cost.v - target.v>>, OncLabel(row),
                          contract.contract_id, "non_pathway_cost_driver",
                          [non_pathway_cost_est |-> est,
                           avg_episode_cost |-> avg_cost.v,
                           target_price |-> target.v,
                           pathway_adherence |-> adherence.v,
                           est_pathway_cost |-> target.v,
                           est_non_pathway_cost |->
                               RoundHalfEven(est.num, est.den),
                           non_pathway_count |-> non_pathway_count,
                           potential_savings |->
                               RoundHalfEven(non_pathway_count * cost_diff_num,
                                             est.den)])>>)

_rule_pathway_adherence_cost(episodes_df, contract) ==
    ThenAll([i \in 1..Len(episodes_df.rows) |->
                OncRulePathwayRow(episodes_df.rows[i], contract)])

\* The pairs of BIOSIMILAR_PAIRS: the brand keyword as the rule searches it
\* (the text before "(", stripped) and the biosimilar keyword
BIOSIMILAR_PAIRS ==
    << [brand |-> "Trastuzumab", bio |-> "Trastuzumab-dkst"],
       [brand |-> "Bevacizumab", bio |-> "Bevacizumab-awwb"],
       [brand |-> "Pegfilgrastim", bio |-> "Pegfilgrastim-jmdb"] >>

\* series.str.contains(keyword, na=False) on one cell, over the drug names
\* of the tables
NameContains(cell, keyword) ==
    /\ cell.t = "str"
    /\ <<cell.s, keyword>> \in
         {<<"Trastuzumab (Herceptin)", "Trastuzumab">>,
          <<"Trastuzumab-dkst", "Trastuzumab">>,
          <<"Trastuzumab-dkst", "Trastuzumab-dkst">>,
          <<"Bevacizumab (Avastin)", "Bevacizumab">>,
          <<"Bevacizumab-awwb", "Bevacizumab">>,
          <<"Bevacizumab-awwb", "Bevacizumab-awwb">>,
          <<"Pegfilgrastim (Neulasta)", "Pegfilgrastim">>,
          <<"Pegfilgrastim-jmdb", "Pegfilgrastim">>,
          <<"Pegfilgrastim-jmdb", "Pegfilgrastim-jmdb">>}

\* str(x).lower() == "true"
StrIsTrue(c) ==
    \/ c.t = "bool" /\ c.b
    \/ c.t = "str" /\ c.s \in {"True", "true", "TRUE"}

\* Rule 2 for one pair of BIOSIMILAR_PAIRS
OncRuleBiosimilarPair(drugs_df, total_episodes, pair, contract_id) ==
    LET brand_rows == SelectSeq(drugs_df.rows, LAMBDA r :
                          /\ NameContains(r["drug_name"], pair.brand)
                          /\ ~StrIsTrue(r["is_biosimilar"]))
        bio_rows   == SelectSeq(drugs_df.rows, LAMBDA r :
                          NameContains(r["drug_name"], pair.bio))
    IN  IF Len(brand_rows) = 0 \/ Len(bio_rows) = 0 THEN Ok(<<>>)
        ELSE
        LET brand_claims == get(brand_rows[1], "total_claims", Num(0))
            bio_claims   == get(bio_rows[1], "total_claims", Num(0))
            brand_cost   == get(brand_rows[1], "avg_cost_per_claim", Num(0))
            bio_cost     == get(bio_rows[1], "avg_cost_per_claim", Num(0))
        IN  \* a missing claim count makes every comparison false and the flag
            \* is built; round() of the missing savings then raises
            IF isna(brand_claims) \/ isna(bio_claims) THEN Raise(1)
            ELSE IF brand_claims.v + bio_claims.v = 0 THEN Ok(<<>>)
            ELSE IF ~QuotientGT(brand_claims.v, brand_claims.v + bio_claims.v, 500)
            THEN Ok(<<>>)
            ELSE IF isna(brand_cost) \/ isna(bio_cost) THEN Raise(1)
            ELSE
            LET potential_savings == brand_claims.v * (brand_cost.v - bio_cost.v)
            IN  Ok(<<Flag(IF QuotientGT(brand_claims.v,
                                        brand_claims.v + bio_claims.v, 800)
                          THEN "RED" ELSE "YELLOW",
                          "specialty", "biosimilar_savings_opportunity",
                          <<brand_claims.v, bio_claims.v>>, "Drug Detail",
                          contract_id, "biosimilar_savings",
                          [brand_drug |-> brand_rows[1]["drug_name"],
                           biosimilar_drug |-> bio_rows[1]["drug_name"],
                           brand_claims |-> brand_claims.v,
                           biosimilar_claims |-> bio_claims.v,
                           brand_cost_per_claim |-> brand_cost.v,
                           biosimilar_cost_per_claim |-> bio_cost.v,
                           potential_savings |-> potential_savings,
                           per_episode_impact |->
                               IF total_episodes > 0
                               THEN RoundHalfEven(potential_savings,
                                                  total_episodes)
                               ELSE 0])>>)

_rule_biosimilar_savings(drugs_df, episodes_df, contract) ==
    IF \/ ~HasCol(episodes_df, "episode_count")
       \/ StrAccessorRaises(drugs_df, "drug_name")
       \/ ~HasCol(drugs_df, "is_biosimilar")
    THEN Raise(0)
    ELSE ThenAll([k \in 1..Len(BIOSIMILAR_PAIRS) |->
             OncRuleBiosimilarPair(
                 drugs_df,
                 ColumnSum(episodes_df, episodes_df.rows, "episode_count"),
                 BIOSIMILAR_PAIRS[k], contract.contract_id)])

\* Rule 3: site-of-service savings, for one drug row
OncRuleSiteOfServiceRow(drug, contract_id) ==
    LET avg_cost     == get(drug, "avg_cost_per_claim", Num(0))
        hopd_pct     == get(drug, "site_of_service_hopd_pct", Num(0))
        total_claims == get(drug, "total_claims", Num(0))
    IN  IF isna(avg_cost) \/ avg_cost.v <= 2000 THEN Ok(<<>>)
        ELSE IF isna(hopd_pct) \/ hopd_pct.v <= 600 THEN Ok(<<>>)
        \* est_savings is missing: not < 5000, and round() raises
        ELSE IF isna(total_claims) THEN Raise(1)
        \* est_savings = total_claims * (hopd_pct - 0.40) * avg_cost * 0.50
        ELSE IF total_claims.v * (hopd_pct.v - 400) * avg_cost.v < 5000 * 2000
        THEN Ok(<<>>)
        ELSE Ok(<<Flag("YELLOW", "specialty", "site_of_service_opportunity",
                       <<hopd_pct.v, avg_cost.v>>, "Drug Detail", contract_id,
                       "site_of_service_savings",
                       [drug_name |-> get(drug, "drug_name", Str("")),
                        hopd_pct |-> hopd_pct.v,
                        avg_cost_per_claim |-> avg_cost.v,
                        total_claims |-> total_claims,
                        excess_hopd_claims |->
                            RoundHalfEven(total_claims.v * (hopd_pct.v - 400),
                                          1000),
                        estimated_savings |->
                            RoundHalfEven(total_claims.v * (hopd_pct.v - 400)
                                            * avg_cost.v, 2000)])>>)

_rule_site_of_service_savings(drugs_df, contract) ==
    ThenAll([i \in 1..Len(drugs_df.rows) |->
                OncRuleSiteOfServiceRow(drugs_df.rows[i], contract.contract_id)])

\* Rule 4: EOL / ACP correlation
_rule_eol_acp_correlation(quality_df, contract) ==
    IF ~HasCol(quality_df, "measure_id") THEN Raise(0)
    ELSE
    LET acp_rows == SelectSeq(quality_df.rows,
                              LAMBDA r : r["measure_id"] = Str("ONC-Q-009"))
    IN  IF Len(acp_rows) = 0 THEN Ok(<<>>)
        ELSE
        LET acp_rate == get(acp_rows[1], "rate", Num(1000))
            eol_failures == Len(SelectSeq(quality_df.rows, EolFailing))
        IN  IF isna(acp_rate) \/ acp_rate.v >= 500 THEN Ok(<<>>)
            ELSE IF eol_failures >= 3
            THEN Ok(<<Flag("RED", "specialty", "acp_root_cause",
                           <<acp_rate.v, eol_failures>>, "End-of-Life Care",
                           contract.contract_id, "acp_root_cause",
                           [acp_rate |-> acp_rate,
                            eol_failures |-> eol_failures])>>)
            ELSE Ok(<<>>)

\* A cell holding the text of a date, "%Y-%m-%d"
Date(y, m, d) == [t |-> "date", y |-> y, m |-> m, d |-> d]

DaysInMonth(y, m) ==
    IF m = 2
    THEN IF y % 4 = 0 /\ (y % 100 # 0 \/ y % 400 = 0) THEN 29 ELSE 28
    ELSE IF m \in {4, 6, 9, 11} THEN 30 ELSE 31

\* datetime.strptime(str(x), "%Y-%m-%d") does not raise ValueError
IsDate(c) ==
    /\ c.t = "date"
    /\ c.y \in 1..9999 /\ c.m \in 1..12 /\ c.d \in 1..DaysInMonth(c.y, c.m)

\* date - relativedelta(months=k): the day is clipped to the month's length
MonthsBack(date, k) ==
    LET total == date.y * 12 + (date.m - 1) - k
        y == total \div 12
        m == (total % 12) + 1
    IN  Date(y, m, IF date.d > DaysInMonth(y, m) THEN DaysInMonth(y, m)
                   ELSE date.d)

\* a >= b on dates
DateGE(a, b) ==
    \/ a.y > b.y
    \/ a.y = b.y /\ a.m > b.m
    \/ a.y = b.y /\ a.m = b.m /\ a.d >= b.d

\* Rule 5: novel therapy carve-out impact
_rule_novel_therapy_impact(drugs_df, episodes_df, contract) ==
    LET lookback_months == cget(contract, "novel_therapy_lookback_months", 18)
        data_as_of == cget(contract, "data_as_of", Date(2025, 1, 15))
    IN  IF ~cget(contract, "novel_therapy_carveout", FALSE) THEN Ok(<<>>)
        ELSE IF ~IsDate(data_as_of) THEN Ok(<<>>)
        ELSE
        LET cutoff_date == MonthsBack(data_as_of, lookback_months)
            novel_drugs == SelectSeq(drugs_df.rows, LAMBDA drug :
                /\ StrIsTrue(get(drug, "is_novel_therapy", Bool(FALSE)))
                /\ IsDate(get(drug, "fda_approval_date", Str("")))
                /\ DateGE(get(drug, "fda_approval_date", Str("")), cutoff_date))
            costs == [i \in 1..Len(novel_drugs) |->
                         get(novel_drugs[i], "total_cost", Num(0))]
        IN  IF Len(novel_drugs) = 0 THEN Ok(<<>>)
            ELSE IF ~HasCol(episodes_df, "total_cost")
                    \/ ~HasCol(episodes_df, "total_target") THEN Raise(0)
            \* a missing drug cost makes the savings missing; round() raises
            ELSE IF \E i \in 1..Len(costs) : isna(costs[i]) THEN Raise(1)
            ELSE
            LET novel_total_cost ==
                    SumSeq([i \in 1..Len(costs) |-> costs[i].v])
                total_cost ==
                    ColumnSum(episodes_df, episodes_df.rows, "total_cost")
                total_target ==
                    ColumnSum(episodes_df, episodes_df.rows, "total_target")
                sharing_rate == cget(contract, "sharing_rate_savings", 0)
            IN  Ok(<<Flag("YELLOW", "specialty", "novel_therapy_carveout",
                          <<novel_total_cost>>, "Drug Detail",
                          contract.contract_id, "novel_therapy_carveout",
                          [novel_drugs |->
                               [i \in 1..Len(novel_drugs) |->
                                   get(novel_drugs[i], "drug_name", Str(""))],
                           novel_total_cost |-> novel_total_cost,
                           savings_before_carveout |-> total_target - total_cost,
                           savings_after_carveout |->
                               total_target - (total_cost - novel_total_cost),
                           provider_share_impact |->
                               RoundHalfEven(novel_total_cost * sharing_rate,
                                             1000)])>>)

CANCER_TYPE_MAP(cancer) ==
    CASE cancer = Str("Breast") -> "breast"
      [] cancer = Str("Lung") -> "lung"
      [] cancer = Str("Colorectal") -> "colorectal"
      [] cancer = Str("Prostate") -> "prostate"
      [] OTHER -> ""

\* Every value of s, as often as it occurs.
KeysRepeated(s) == s

\* The keys of a dict filled in the order of s: each value once, at its first
\* occurrence.
RECURSIVE KeysInOrder(_)
KeysInOrder(s) ==
    IF s = <<>> THEN <<>>
    ELSE LET d == KeysInOrder(SubSeq(s, 1, Len(s) - 1))
         IN  IF InSeq(d, s[Len(s)]) THEN d ELSE Append(d, s[Len(s)])

\* Rule 6 for one cancer type: total_count / (attributed_members / 1000)
\* against the incidence range, whose rates are in thousandths
OncRuleVolumeOf(cancer, total_count, incidence_rates, attributed_members, contract_id) ==
    LET ref_key == CANCER_TYPE_MAP(cancer)
    IN  IF ref_key = "" \/ ref_key \notin DOMAIN incidence_rates THEN <<>>
        ELSE
        LET ref      == incidence_rates[ref_key]
            expected == cget(ref, "expected", 0)
            min_rate == cget(ref, "min", 0)
            max_rate == cget(ref, "max", 0)
            above == IF attributed_members > 0
                     THEN total_count * 1000000 > 2 * max_rate * attributed_members
                     ELSE total_count * 1000000 < 2 * max_rate * attributed_members
            below == IF attributed_members > 0
                     THEN total_count * 2000000 < min_rate * attributed_members
                     ELSE total_count * 2000000 > min_rate * attributed_members
        IN  IF expected > 0 /\ above
            THEN <<Flag("RED", "specialty", "episode_volume_vs_incidence",
                        <<total_count>>, CellStr(cancer) \o " Volume",
                        contract_id, "volume_above_incidence",
                        [cancer_type |-> cancer, total_episodes |-> total_count,
                         attributed_members |-> attributed_members])>>
            ELSE IF expected > 0 /\ below
            THEN <<Flag("YELLOW", "specialty", "episode_volume_vs_incidence",
                        <<total_count>>, CellStr(cancer) \o " Volume",
                        contract_id, "volume_below_incidence",
                        [cancer_type |-> cancer, total_episodes |-> total_count,
                         attributed_members |-> attributed_members])>>
            ELSE <<>>

_rule_volume_vs_incidence(episodes_df, reference_ranges, contract) ==
    LET attributed_members == cget(contract, "attributed_members", 0)
        incidence_rates ==
            cget(reference_ranges, "incidence_rates_ma_per_1000", <<>>)
        counted == SelectSeq(episodes_df.rows,
                       LAMBDA r : notna(get(r, "episode_count", Num(0))))
        cancer_of(r) == get(r, "cancer_type", Str(""))
        cancers == KeysInOrder([i \in 1..Len(counted) |-> cancer_of(counted[i])])
        volume(c) == SumSeq([i \in 1..Len(counted) |->
                        IF cancer_of(counted[i]) = c
                        THEN get(counted[i], "episode_count", Num(0)).v ELSE 0])
    IN  IF attributed_members = 0 THEN Ok(<<>>)
        ELSE Ok(Flatten([k \in 1..Len(cancers) |->
                    OncRuleVolumeOf(cancers[k], volume(cancers[k]),
                                    incidence_rates, attributed_members,
                                    contract.contract_id)]))

\* The candidates in their order of arrival.
SortByGapSkipped(s) == s

\* list.sort(key=gap): ascending, equal gaps in their order of arrival
RECURSIVE SortByGap(_)
SortByGap(s) ==
    IF s = <<>> THEN <<>>
    ELSE LET rest == SortByGap(SubSeq(s, 1, Len(s) - 1))
             x    == s[Len(s)]
             before == SelectSeq(rest, LAMBDA c : c.gap <= x.gap)
             after  == SelectSeq(rest, LAMBDA c : c.gap > x.gap)
         IN  before \o <<x>> \o after

\* Rule 7: quality gate financial impact
_rule_quality_gate_financial_impact(quality_df, episodes_df, contract) ==
    IF StrAccessorRaises(quality_df, "measure_id") THEN Raise(0)
    ELSE
    LET gate_min == cget(contract, "quality_gate_minimum", 0)
        comp_row == SelectSeq(quality_df.rows, LAMBDA r : IsComp(r["measure_id"]))
        non_comp == SelectSeq(quality_df.rows, LAMBDA r : ~IsComp(r["measure_id"]))
    IN  IF Len(comp_row) = 0 THEN Ok(<<>>)
        ELSE
        LET earned  == get(comp_row[1], "points_earned", Num(0))
            max_pts == get(comp_row[1], "max_points", Num(0))
        IN  IF isna(earned) \/ isna(max_pts) \/ max_pts.v = 0 THEN Ok(<<>>)
            ELSE
            \* gap = gate_min - (earned / max_pts) * 100, times max_pts
            LET gap_scaled == gate_min * max_pts.v - 100 * earned.v
                gap_le_0 == IF max_pts.v > 0 THEN gap_scaled <= 0
                            ELSE gap_scaled >= 0
                gap_gt_5 == IF max_pts.v > 0 THEN gap_scaled > 5 * max_pts.v
                            ELSE gap_scaled < 5 * max_pts.v
                rows == episodes_df.rows
                total_savings ==
                    SumSeq([i \in 1..Len(rows) |->
                        LET tc == get(rows[i], "total_cost", Num(0))
                            tt == get(rows[i], "total_target", Num(0))
                        IN  IF notna(tc) /\ notna(tt) THEN tt.v - tc.v ELSE 0])
                sharing_rate == cget(contract, "sharing_rate_savings", 0)
                gap_pts(r) ==
                    LET current_pts     == get(r, "points_earned", Num(0))
                        max_measure_pts == get(r, "max_points", Num(0))
                    IN  IF notna(current_pts) /\ notna(max_measure_pts)
                        THEN max_measure_pts.v - current_pts.v ELSE 0
                candidate_rows == SelectSeq(non_comp, LAMBDA r : gap_pts(r) > 0)
                improvement_candidates ==
                    SortByGap([i \in 1..Len(candidate_rows) |->
                        [measure |-> get(candidate_rows[i], "measure_name", Str("")),
                         current_points |->
                             get(candidate_rows[i], "points_earned", Num(0)).v,
                         max_points |->
                             get(candidate_rows[i], "max_points", Num(0)).v,
                         gap |-> gap_pts(candidate_rows[i])]])
                top_candidates ==
                    SubSeq(improvement_candidates, 1,
                           IF Len(improvement_candidates) < 3
                           THEN Len(improvement_candidates) ELSE 3)
            IN  IF gap_le_0 \/ gap_gt_5 THEN Ok(<<>>)
                ELSE Ok(<<Flag("RED", "specialty",
                               "quality_gate_improvement_path",
                               <<earned.v, max_pts.v>>, "Quality Gate",
                               contract.contract_id, "improvement_path",
                               [gate_minimum |-> gate_min,
                                savings_at_risk |->
                                    RoundHalfEven(Max2(0, total_savings)
                                                    * sharing_rate, 1000),
                                improvement_candidates |-> top_candidates])>>)

validate_onc_rules(episodes_df, quality_df, drugs_df, reference_ranges, contract) ==
    ThenAll(<< _rule_pathway_adherence_cost(episodes_df, contract),
               _rule_biosimilar_savings(drugs_df, episodes_df, contract),
               _rule_site_of_service_savings(drugs_df, contract),
               _rule_eol_acp_correlation(quality_df, contract),
               _rule_novel_therapy_impact(drugs_df, episodes_df, contract),
               _rule_volume_vs_incidence(episodes_df, reference_ranges, contract),
               _rule_quality_gate_financial_impact(quality_df, episodes_df,
                                                   contract) >>)

(***************************************************************************)
(* main.py: the rule set, in the order main runs it                        *)
(***************************************************************************)
\* The twelve checker calls of main on the loaded data, each with the prefix
\* of the counter it draws from.
RuleSetSteps(data) ==
    LET msk_contract == data.msk_contract
        onc_contract == data.onc_contract
        Step(prefix, r) == [prefix |-> prefix, r |-> r]
    IN  << Step("SCHEMA", validate_schema(data.msk_episodes, "msk_episodes",
                                          msk_contract)),
           Step("SCHEMA", validate_schema(data.msk_quality, "msk_quality",
                                          msk_contract)),
           Step("ARITH", validate_arithmetic(data.msk_episodes, data.msk_quality,
                                             msk_contract)),
           Step("RANGE", validate_ranges(data.msk_episodes,
                                         data.reference_ranges.msk, msk_contract)),
           Step("CROSS", validate_cross_metrics(data.msk_episodes,
                                                data.msk_quality, msk_contract,
                                                NoDf)),
           Step("MSK", validate_msk_rules(data.msk_episodes, data.msk_quality,
                                          data.reference_ranges.msk,
                                          msk_contract)),
           Step("SCHEMA", validate_schema(data.onc_episodes, "onc_episodes",
                                          onc_contract)),
           Step("SCHEMA", validate_schema(data.onc_quality, "onc_quality",
                                          onc_contract)),
           Step("ARITH", validate_arithmetic(data.onc_episodes, data.onc_quality,
                                             onc_contract)),
           Step("RANGE", validate_ranges(data.onc_episodes,
                                         data.reference_ranges.oncology,
                                         onc_contract)),
           Step("CROSS", validate_cross_metrics(data.onc_episodes,
                                                data.onc_quality, onc_contract,
                                                data.onc_drugs)),
           Step("ONC", validate_onc_rules(data.onc_episodes, data.onc_quality,
                                          data.onc_drugs,
                                          data.reference_ranges.oncology,
                                          onc_contract)) >>

\* all_flags += checker(...), step by step from the counters ctrs: an
\* exception in a step ends the run, the identifiers drawn so far are spent.
RECURSIVE RunSteps(_, _)
RunSteps(ctrs, steps) ==
    IF steps = <<>> THEN [counters |-> ctrs, flags |-> <<>>, raised |-> FALSE]
    ELSE LET s    == Head(steps)
             next == [ctrs EXCEPT ![s.prefix] = Advance(@, s.r.n)]
         IN  IF s.r.ex THEN [counters |-> next, flags |-> <<>>, raised |-> TRUE]
             ELSE LET rest == RunSteps(next, Tail(steps))
                  IN  [counters |-> rest.counters,
                       flags |-> IF rest.raised THEN <<>>
                                 ELSE NumberFlags(s.prefix, ctrs[s.prefix], s.r.fl)
                                      \o rest.flags,
                       raised |-> rest.raised]

(***************************************************************************)
(* diagnosis/ai_diagnostics.py                                             *)
(***************************************************************************)
\* The keys of the dict of _group_flags_by_episode, in insertion order
_group_flags_by_episode(flags) ==
    KeysInOrder([i \in 1..Len(flags) |-> flags[i].episode_type])

\* Episode types that are no regular expression: str.contains raises on them
\* in _format_metrics.
NotAPattern == {"TKR (bilateral"}

\* What _call_claude_api returns for each outcome of the call: the parsed
\* reply, or the placeholder dict of the except branch taken.
_call_claude_api(outcome) ==
    CASE outcome = "import_error" ->
           [kind |-> "dict", diagnosis_summary |-> "package_not_installed"]
      [] outcome = "api_error" ->
           [kind |-> "dict", diagnosis_summary |-> "api_error"]
      [] outcome = "json_decode_error" ->
           [kind |-> "dict", diagnosis_summary |-> "could_not_be_parsed"]
      [] outcome = "json_object" ->
           [kind |-> "dict", diagnosis_summary |-> "narrative"]
      [] OTHER ->
           \* json.loads of a reply that is JSON but no object
           [kind |-> "list", diagnosis_summary |-> ""]

\* The narrative of one group, as a sequence: empty when the group is skipped
DiagnoseGroup(flags, episode_type, contracts, outcome) ==
    LET episode_flags == SelectSeq(flags, LAMBDA f : f.episode_type = episode_type)
        contract_id   == episode_flags[1].contract_id
        response_dict == _call_claude_api(outcome)
    IN  IF \A k \in 1..Len(contracts) : contracts[k].contract_id # contract_id
        THEN <<>>
        ELSE IF episode_type \in NotAPattern THEN <<>>
        \* response_dict.get raises AttributeError on a list
        ELSE IF response_dict.kind # "dict" THEN <<>>
        ELSE <<[episode_type |-> episode_type,
                diagnosis_summary |-> response_dict.diagnosis_summary,
                flags_addressed |->
                    [i \in 1..Len(episode_flags) |-> episode_flags[i].flag_id]]>>

\* outcomes[k] is the outcome of the call made for the k-th group, if one is
\* made
generate_all_diagnostics(flags, contracts, outcomes) ==
    LET grouped == _group_flags_by_episode(flags)
    IN  Flatten([k \in 1..Len(grouped) |->
                    DiagnoseGroup(flags, grouped[k], contracts, outcomes[k])])

(***************************************************************************)
(* reporting/html_report.py: the flag sequences prepared for display       *)
(***************************************************************************)
\* A sort key that puts GREEN first.
_severity_order_reversed(flag) ==
    CASE flag.severity = "RED" -> 2
      [] flag.severity = "YELLOW" -> 1
      [] flag.severity = "GREEN" -> 0
      [] OTHER -> 3

\* Sort key: RED first, then YELLOW, then GREEN.
_severity_order(flag) ==
    CASE flag.severity = "RED" -> 0
      [] flag.severity = "YELLOW" -> 1
      [] flag.severity = "GREEN" -> 2
      [] OTHER -> 3

\* sorted(flags, key=_severity_order): stable
RECURSIVE SortBySeverity(_)
SortBySeverity(s) ==
    IF s = <<>> THEN <<>>
    ELSE LET rest == SortBySeverity(SubSeq(s, 1, Len(s) - 1))
             x    == s[Len(s)]
             before == SelectSeq(rest, LAMBDA f :
                           _severity_order(f) <= _severity_order(x))
             after  == SelectSeq(rest, LAMBDA f :
                           _severity_order(f) > _severity_order(x))
         IN  before \o <<x>> \o after

generate_html_report(all_flags) ==
    [msk_flags |-> SortBySeverity(SelectSeq(all_flags,
                       LAMBDA f : f.contract_id = "MSK-2024-001")),
     onc_flags |-> SortBySeverity(SelectSeq(all_flags,
                       LAMBDA f : f.contract_id = "ONC-2024-001")),
     all_flags |-> SortBySeverity(all_flags)]

(***************************************************************************)
(* Contracts and tables the checks run on                                  *)
(***************************************************************************)
MskContract ==
    [contract_id |-> "MSK-2024-001", specialty |-> "MSK",
     attributed_members |-> 4000, member_months |-> 48000,
     sharing_rate_savings |-> 500, sharing_rate_losses |-> 300,
     quality_gate_minimum |-> 80]

OncContract ==
    [contract_id |-> "ONC-2024-001", specialty |-> "Oncology",
     attributed_members |-> 4000, member_months |-> 48000,
     sharing_rate_savings |-> 500, sharing_rate_losses |-> 300,
     quality_gate_minimum |-> 85, pathway_adherence_target |-> 800,
     novel_therapy_carveout |-> TRUE, novel_therapy_lookback_months |-> 18,
     data_as_of |-> Date(2025, 1, 15)]

\* A consistent TKR row: every identity of the rule set holds on it.
MskBaseRow ==
    [episode_type |-> Str("TKR"), episode_count |-> Num(100),
     avg_episode_cost |-> Num(1000), target_price |-> Num(1000),
     total_cost |-> Num(100000), total_target |-> Num(100000),
     variance_pct |-> Num(0), implant_cost_avg |-> Num(200),
     facility_cost_avg |-> Num(500), professional_cost_avg |-> Num(100),
     post_acute_cost_avg |-> Num(150), readmission_cost_avg |-> Num(50),
     discharge_home_pct |-> Num(620), discharge_snf_pct |-> Num(300),
     discharge_irf_pct |-> Num(60), discharge_other_pct |-> Num(20),
     readmission_rate |-> Num(50), er_visit_rate_90d |-> Num(80),
     ssi_rate |-> Num(10), revision_rate_12mo |-> Num(10),
     avg_los_days |-> Num(3), avg_opioid_mme_discharge |-> Num(40),
     prom_collection_rate |-> Num(600), prom_improvement_rate |-> Num(700),
     prior_year_episode_count |-> Num(95), prior_year_avg_cost |-> Num(990),
     risk_score_actual |-> Num(1000), risk_score_expected |-> Num(1000)]

OncBaseRow ==
    [cancer_type |-> Str("Lung"), stage_group |-> Str("NSCLC"),
     line_of_therapy |-> Str("1L"), episode_count |-> Num(100),
     avg_episode_cost |-> Num(1000), target_price |-> Num(1000),
     total_cost |-> Num(100000), total_target |-> Num(100000),
     variance_pct |-> Num(0), drug_cost_avg |-> Num(600),
     administration_cost_avg |-> Num(100), inpatient_cost_avg |-> Num(100),
     er_cost_avg |-> Num(50), imaging_cost_avg |-> Num(50),
     lab_cost_avg |-> Num(50), supportive_care_cost_avg |-> Num(30),
     other_cost_avg |-> Num(20), pathway_adherence_rate |-> Num(850),
     pathway_regimen_pct |-> Num(850), non_pathway_regimen_pct |-> Num(150),
     biosimilar_utilization_rate |-> Num(600), office_infusion_pct |-> Num(700),
     hopd_infusion_pct |-> Num(300), hospitalization_rate |-> Num(200),
     er_visit_rate |-> Num(100), prior_year_episode_count |-> Num(95),
     prior_year_avg_cost |-> Num(990), risk_score_actual |-> Num(1000),
     risk_score_expected |-> Num(1000)]

\* A non-composite quality measure row and the composite row.
QualityRow(id, num, den, rate, target, max_pts, earned) ==
    [measure_name |-> Str(id), measure_id |-> Str(id), numerator |-> Num(num),
     denominator |-> Num(den), rate |-> Num(rate), target |-> Num(target),
     max_points |-> Num(max_pts), points_earned |-> Num(earned),
     prior_year_rate |-> Num(rate), benchmark_50th |-> Num(target),
     benchmark_90th |-> Num(target), national_benchmark |-> Num(target)]

DrugRow(name, bio, claims, cost, per_claim, hopd, fda, novel) ==
    [drug_category |-> Str("Biologic"), drug_name |-> Str(name),
     is_biosimilar |-> bio, is_pathway |-> Bool(TRUE),
     cancer_types_used |-> Str("Lung"), total_claims |-> Num(claims),
     total_cost |-> Num(cost), avg_cost_per_claim |-> Num(per_claim),
     site_of_service_office_pct |-> Num(1000 - hopd),
     site_of_service_hopd_pct |-> Num(hopd),
     site_of_service_home_pct |-> Num(0), prior_year_total_cost |-> Num(cost),
     prior_year_claims |-> Num(claims), fda_approval_date |-> fda,
     is_novel_therapy |-> novel]

\* A table: its column names in order and its rows, every row restricted to
\* the columns of the table.
Table(cols, rows) ==
    [cols |-> cols,
     rows |-> [i \in 1..Len(rows) |->
                  [c \in {cols[j] : j \in 1..Len(cols)} |-> rows[i][c]]]]

\* The columns cols without the column drop.
Without(cols, drop) == SelectSeq(cols, LAMBDA c : c # drop)

\* The row with one cell replaced.
RowWith(row, col, cell) == [row EXCEPT ![col] = cell]

\* The row with a cell for one more column.
RowPlus(row, col, cell) ==
    [c \in DOMAIN row \cup {col} |-> IF c = col THEN cell ELSE row[c]]

(***************************************************************************)
(* The process: its initial state and the call of one checker              *)
(***************************************************************************)
NoCall == [op |-> "none"]

Init ==
    /\ counters = [p \in Prefixes |-> 0]
    /\ emitted = <<>>
    /\ last = NoCall

\* One checker call: the counter of its prefix advances by the identifiers it
\* drew, and its flags reach the caller unless an exception left it.
Call(op, prefix, args, r) ==
    LET fl == IF r.ex THEN <<>> ELSE NumberFlags(prefix, counters[prefix], r.fl)
    IN  /\ counters' = [counters EXCEPT ![prefix] = Advance(@, r.n)]
        /\ emitted' = emitted \o fl
        /\ last' = [op |-> op, args |-> args, raised |-> r.ex, flags |-> fl]

CallValidateSchema(df, dataset_name, contract) ==
    Call("validate_schema", "SCHEMA",
         [df |-> df, dataset_name |-> dataset_name, contract |-> contract],
         validate_schema(df, dataset_name, contract))

CallValidateArithmetic(episodes_df, quality_df, contract) ==
    Call("validate_arithmetic", "ARITH",
         [episodes_df |-> episodes_df, quality_df |-> quality_df,
          contract |-> contract],
         validate_arithmetic(episodes_df, quality_df, contract))

CallValidateRanges(episodes_df, reference_ranges, contract) ==
    Call("validate_ranges", "RANGE",
         [episodes_df |-> episodes_df, reference_ranges |-> reference_ranges,
          contract |-> contract],
         validate_ranges(episodes_df, reference_ranges, contract))

CallValidateCrossMetrics(episodes_df, quality_df, contract, onc_drugs_df) ==
    Call("validate_cross_metrics", "CROSS",
         [episodes_df |-> episodes_df, quality_df |-> quality_df,
          contract |-> contract, onc_drugs_df |-> onc_drugs_df],
         validate_cross_metrics(episodes_df, quality_df, contract, onc_drugs_df))

CallValidateMskRules(episodes_df, quality_df, reference_ranges, contract) ==
    Call("validate_msk_rules", "MSK",
         [episodes_df |-> episodes_df, quality_df |-> quality_df,
          reference_ranges |-> reference_ranges, contract |-> contract],
         validate_msk_rules(episodes_df, quality_df, reference_ranges, contract))

CallValidateOncRules(episodes_df, quality_df, drugs_df, reference_ranges, contract) ==
    Call("validate_onc_rules", "ONC",
         [episodes_df |-> episodes_df, quality_df |-> quality_df,
          drugs_df |-> drugs_df, reference_ranges |-> reference_ranges,
          contract |-> contract],
         validate_onc_rules(episodes_df, quality_df, drugs_df, reference_ranges,
                            contract))

CallRuleQualityGate(quality_df, episodes_df, contract) ==
    Call("_rule_quality_gate_financial_impact", "ONC",
         [quality_df |-> quality_df, episodes_df |-> episodes_df,
          contract |-> contract],
         _rule_quality_gate_financial_impact(quality_df, episodes_df, contract))

\* One run of the rule set of main on the data; run counts the runs so far.
RunRuleSet(data, run) ==
    LET res == RunSteps(counters, RuleSetSteps(data))
    IN  /\ counters' = res.counters
        /\ emitted' = emitted \o res.flags
        /\ last' = [op |-> "main", args |-> data, raised |-> res.raised,
                    flags |-> res.flags, run |-> run]

\* generate_all_diagnostics draws no identifier and leaves the flags as they
\* are; flags_after is the list the caller holds after the call.
CallGenerateAllDiagnostics(flags, contracts, outcomes) ==
    /\ UNCHANGED <<counters, emitted>>
    /\ last' = [op |-> "generate_all_diagnostics",
                args |-> [flags |-> flags, contracts |-> contracts,
                          outcomes |-> outcomes],
                raised |-> FALSE,
                narratives |-> generate_all_diagnostics(flags, contracts,
                                                        outcomes),
                flags_after |-> flags]

CallGenerateHtmlReport(all_flags) ==
    /\ UNCHANGED <<counters, emitted>>
    /\ last' = [op |-> "generate_html_report",
                args |-> [all_flags |-> all_flags],
                raised |-> FALSE,
                shown |-> generate_html_report(all_flags)]

(***************************************************************************)
(* SpecSchema: one call of validate_schema on a table of each kind, with   *)
(* a column dropped or added and cells replaced                            *)
(***************************************************************************)
MaxRows == 2

DatasetNames ==
    {"msk_episodes", "msk_quality", "onc_episodes", "onc_quality",
     "onc_drug_detail"}

BaseRowFor(dataset_name) ==
    CASE dataset_name = "msk_episodes" -> MskBaseRow
      [] dataset_name = "onc_episodes" -> OncBaseRow
      [] dataset_name \in {"msk_quality", "onc_quality"} ->
           QualityRow("Q-001", 80, 100, 800, 750, 10, 8)
      [] OTHER ->
           DrugRow("Pembrolizumab", Bool(FALSE), 50, 100000, 2000, 300,
                   Date(2020, 1, 1), Bool(FALSE))

SchemaCols(dataset_name) ==
    CASE dataset_name = "msk_episodes" ->
           {"episode_type", "episode_count", "discharge_home_pct",
            "readmission_rate", "avg_los_days"}
      [] dataset_name = "onc_episodes" ->
           {"cancer_type", "episode_count", "total_cost",
            "pathway_adherence_rate"}
      [] dataset_name \in {"msk_quality", "onc_quality"} ->
           {"measure_id", "points_earned"}
      [] OTHER -> {"drug_name", "total_claims"}

SchemaCells ==
    {NaN, Num(-5), Num(45000), Num(200000), Str("unknown"), Str("Conservative LBP")}

SchemaRows(dataset_name) ==
    {BaseRowFor(dataset_name)} \cup
    {RowWith(BaseRowFor(dataset_name), c, v) :
        c \in SchemaCols(dataset_name), v \in SchemaCells}

\* The tables of one kind: empty, or one row of SchemaRows followed by up to
\* MaxRows - 1 further rows; at most one expected column dropped, at most one
\* unexpected column added.
SchemaTables(dataset_name) ==
    LET expected == EXPECTED_COLUMNS(dataset_name)
        base     == BaseRowFor(dataset_name)
        more     == {base} \cup {RowWith(base, c, NaN) : c \in SchemaCols(dataset_name)}
        colsets  == {expected} \cup
                    {Without(expected, c) : c \in SchemaCols(dataset_name)} \cup
                    {Append(expected, "extra_cost_note")}
        rowseqs  == {<<>>} \cup
                    {<<r>> \o tail :
                        r \in SchemaRows(dataset_name),
                        tail \in UNION {[1..n -> more] : n \in 0..(MaxRows - 1)}}
    IN  {Table(cols, [i \in 1..Len(rows) |->
                         RowPlus(rows[i], "extra_cost_note", Str("memo"))]) :
            cols \in colsets, rows \in rowseqs}

SchemaNext ==
    /\ last = NoCall
    /\ \E dataset_name \in DatasetNames :
         \E df \in SchemaTables(dataset_name) :
           \E contract \in {MskContract, OncContract} :
             CallValidateSchema(df, dataset_name, contract)

SpecSchema == Init /\ [][SchemaNext]_vars

(***************************************************************************)
(* SpecArith: one call of validate_arithmetic on an episode table of       *)
(* either specialty and a quality table                                    *)
(***************************************************************************)
ArithCols(specialty) ==
    IF specialty = "MSK"
    THEN <<"episode_type", "episode_count", "avg_episode_cost", "target_price",
           "total_cost", "total_target", "variance_pct">> \o MskComponents
    ELSE <<"cancer_type", "stage_group", "line_of_therapy", "episode_count",
           "avg_episode_cost", "target_price", "total_cost", "total_target",
           "variance_pct">> \o OncComponents

\* Rows whose target, variance and components are consistent or not, with
\* every combination of count, average cost and total cost of the sets below.
ArithRows(specialty) ==
    LET base == IF specialty = "MSK" THEN MskBaseRow ELSE OncBaseRow
        off  == IF specialty = "MSK"
                THEN [base EXCEPT !["total_target"] = Num(120000),
                                  !["variance_pct"] = Num(50),
                                  !["implant_cost_avg"] = Num(900)]
                ELSE [base EXCEPT !["total_target"] = Num(120000),
                                  !["variance_pct"] = Num(50),
                                  !["other_cost_avg"] = Num(400)]
    IN  {[b EXCEPT !["episode_count"] = count, !["avg_episode_cost"] = avg_cost,
                   !["total_cost"] = total_cost] :
            b \in {base, off},
            count \in {NaN, Num(0), Num(100)},
            avg_cost \in {NaN, Num(1000)},
            total_cost \in {NaN, Num(0), Num(-100000), Num(100000), Num(100500),
                            Num(101000), Num(102000)}}

\* Tables of one row of ArithRows followed by up to MaxRows - 1 further rows.
ArithTables(specialty) ==
    LET base == IF specialty = "MSK" THEN MskBaseRow ELSE OncBaseRow
        more == {base, [base EXCEPT !["total_cost"] = Num(150000)]}
    IN  {Table(ArithCols(specialty), <<>>)} \cup
        {Table(ArithCols(specialty), <<r>> \o tail) :
            r \in ArithRows(specialty),
            tail \in UNION {[1..n -> more] : n \in 0..(MaxRows - 1)}}

QualityCols ==
    <<"measure_name", "measure_id", "numerator", "denominator", "rate",
      "target", "max_points", "points_earned">>

\* Quality tables: consistent, with a composite and a rate that do not add
\* up, and empty.
ArithQualityTables ==
    {Table(QualityCols, <<QualityRow("ONC-Q-001", 80, 100, 800, 750, 10, 8),
                          QualityRow("ONC-Q-COMP", 0, 0, 0, 0, 10, 8)>>),
     Table(QualityCols, <<QualityRow("ONC-Q-001", 80, 100, 700, 750, 10, 8),
                          QualityRow("ONC-Q-COMP", 0, 0, 0, 0, 10, 9)>>),
     Table(QualityCols, <<>>)}

ArithNext ==
    /\ last = NoCall
    /\ \E contract \in {MskContract, OncContract,
                        [MskContract EXCEPT !.member_months = 40000]} :
         \E episodes_df \in ArithTables(contract.specialty) :
           \E quality_df \in ArithQualityTables :
             CallValidateArithmetic(episodes_df, quality_df, contract)

SpecArith == Init /\ [][ArithNext]_vars

(***************************************************************************)
(* Spec: any sequence of checker calls in one process, on tables in which  *)
(* optional columns are absent or optional cells are missing               *)
(***************************************************************************)
MaxIds == 3

MskRanges ==
    [episode_cost_ranges |->
         [TKR |-> [min |-> 800, max |-> 1500, expected |-> 1000]],
     utilization_ranges_ma |->
         [opioid_mme_discharge_avg |-> [target |-> 30, max_acceptable |-> 90]],
     quality_targets |->
         [readmit_90day |-> [target |-> 40, max_acceptable |-> 100]]]

OncRanges ==
    [episode_cost_ranges |->
         [lung_nsclc_1L |-> [min |-> 800, max |-> 1500, expected |-> 1000]],
     pathway_adherence_benchmarks |->
         [lung_nsclc_1L |-> [min_acceptable |-> 700, expected |-> 900]],
     incidence_rates_ma_per_1000 |->
         [lung |-> [min |-> 1000, max |-> 100000, expected |-> 25000]]]

\* MSK episode tables: complete; without the optional PROM improvement
\* column; with missing optional cells.
MskEpisodeTables ==
    LET cols == EXPECTED_COLUMNS("msk_episodes")
    IN  {Table(cols, <<MskBaseRow>>),
         Table(Without(cols, "prom_improvement_rate"),
               <<RowWith(MskBaseRow, "prom_collection_rate", Num(400))>>),
         Table(Without(cols, "implant_cost_avg"),
               <<RowWith(MskBaseRow, "avg_opioid_mme_discharge", NaN)>>)}

\* Oncology episode tables: without the optional pathway adherence column;
\* with a missing adherence and a missing stage.
OncEpisodeTables ==
    LET cols == EXPECTED_COLUMNS("onc_episodes")
    IN  {Table(Without(cols, "pathway_adherence_rate"), <<OncBaseRow>>),
         Table(cols, <<RowWith(OncBaseRow, "pathway_adherence_rate", NaN),
                       [OncBaseRow EXCEPT !["pathway_adherence_rate"] = Num(600),
                                          !["stage_group"] = NaN]>>)}

OncQualityTables ==
    {Table(QualityCols, <<QualityRow("ONC-Q-001", 80, 100, 800, 750, 10, 8),
                          QualityRow("ONC-Q-COMP", 0, 0, 0, 0, 100, 83)>>),
     Table(QualityCols, <<RowWith(QualityRow("ONC-Q-001", 80, 100, 800, 750,
                                             10, 8), "points_earned", NaN)>>)}

\* Drug detail: none given; a complete table; one without the optional
\* biosimilar marker.
DrugTables ==
    LET cols == EXPECTED_COLUMNS("onc_drug_detail")
        row  == DrugRow("Trastuzumab (Herceptin)", Bool(FALSE), 50, 100000,
                        2000, 300, Date(2020, 1, 1), Bool(FALSE))
    IN  {NoDf, Table(cols, <<row>>), Table(Without(cols, "is_biosimilar"), <<row>>)}

IdsDrawn == SumSeq([i \in 1..6 |->
                counters[<<"SCHEMA", "ARITH", "RANGE", "CROSS", "MSK", "ONC">>[i]]])

\* A step of Spec: one more call while fewer than MaxIds identifiers are drawn.
SchemaStep ==
    /\ IdsDrawn < MaxIds
    /\ \E df \in MskEpisodeTables :
         CallValidateSchema(df, "msk_episodes", MskContract)

ArithmeticMskStep ==
    /\ IdsDrawn < MaxIds
    /\ \E df \in MskEpisodeTables :
         /\ ~HasCol(df, "implant_cost_avg")
         /\ CallValidateArithmetic(df, Table(QualityCols, <<>>), MskContract)

ArithmeticOncStep ==
    /\ IdsDrawn < MaxIds
    /\ \E df \in OncEpisodeTables : \E quality_df \in OncQualityTables :
         /\ Len(df.rows) = 2
         /\ CallValidateArithmetic(df, quality_df, OncContract)

RangesMskStep ==
    /\ IdsDrawn < MaxIds
    /\ \E df \in MskEpisodeTables : CallValidateRanges(df, MskRanges, MskContract)

RangesOncStep ==
    /\ IdsDrawn < MaxIds
    /\ \E df \in OncEpisodeTables : CallValidateRanges(df, OncRanges, OncContract)

CrossMetricsMskStep ==
    /\ IdsDrawn < MaxIds
    /\ \E df \in MskEpisodeTables :
         /\ ~HasCol(df, "prom_improvement_rate")
         /\ CallValidateCrossMetrics(df, Table(QualityCols, <<>>), MskContract,
                                     NoDf)

CrossMetricsOncStep ==
    /\ IdsDrawn < MaxIds
    /\ \E df \in OncEpisodeTables : \E quality_df \in OncQualityTables :
         \E drugs_df \in DrugTables :
           /\ ~HasCol(df, "pathway_adherence_rate")
           /\ Len(quality_df.rows) = 2
           /\ CallValidateCrossMetrics(df, quality_df, OncContract, drugs_df)

MskRulesStep ==
    /\ IdsDrawn < MaxIds
    /\ \E df \in MskEpisodeTables :
         CallValidateMskRules(df, Table(QualityCols, <<>>), MskRanges,
                              MskContract)

OncRulesStep ==
    /\ IdsDrawn < MaxIds
    /\ \E df \in OncEpisodeTables : \E quality_df \in OncQualityTables :
         \E drugs_df \in DrugTables \ {NoDf} :
           /\ Len(quality_df.rows) = 2
           /\ CallValidateOncRules(df, quality_df, drugs_df, OncRanges,
                                   OncContract)

Next ==
    \/ SchemaStep
    \/ ArithmeticMskStep
    \/ ArithmeticOncStep
    \/ RangesMskStep
    \/ RangesOncStep
    \/ CrossMetricsMskStep
    \/ CrossMetricsOncStep
    \/ MskRulesStep
    \/ OncRulesStep

Spec == Init /\ [][Next]_vars

(***************************************************************************)
(* SpecMain: the rule set of main, run again and again on the same data    *)
(***************************************************************************)
MaxRuns == 2

\* The loaded data of one run: every combination of the tables below.
MainInputs ==
    LET msk == EXPECTED_COLUMNS("msk_episodes")
        onc == EXPECTED_COLUMNS("onc_episodes")
        drug == EXPECTED_COLUMNS("onc_drug_detail")
        brand == DrugRow("Trastuzumab (Herceptin)", Bool(FALSE), 50, 100000,
                         2000, 600, Date(2020, 1, 1), Bool(FALSE))
        novel == DrugRow("Novel CAR-T", Bool(FALSE), 10, 50000, 5000, 300,
                         Date(2024, 6, 1), Bool(TRUE))
    IN  [msk_contract : {MskContract},
         onc_contract : {OncContract},
         msk_episodes :
             {Table(msk, <<MskBaseRow>>),
              Table(msk, <<RowWith(MskBaseRow, "total_cost", Num(150000)),
                           RowWith(MskBaseRow, "avg_opioid_mme_discharge",
                                   Num(95))>>),
              Table(Without(msk, "prom_improvement_rate"),
                    <<RowWith(MskBaseRow, "prom_collection_rate", Num(400))>>)},
         msk_quality :
             {Table(EXPECTED_COLUMNS("msk_quality"),
                    <<QualityRow("MSK-Q-001", 80, 100, 800, 750, 10, 8)>>)},
         onc_episodes :
             OncEpisodeTables \cup
             {Table(onc, <<[OncBaseRow EXCEPT
                              !["pathway_adherence_rate"] = Num(700),
                              !["avg_episode_cost"] = Num(1200),
                              !["total_cost"] = Num(120000)]>>)},
         onc_quality : OncQualityTables,
         onc_drugs :
             {Table(drug, <<brand>>), Table(drug, <<brand, novel>>),
              Table(Without(drug, "is_biosimilar"), <<brand>>)},
         reference_ranges :
             {[msk |-> MskRanges, oncology |-> OncRanges],
              [msk |-> [quality_targets |-> MskRanges.quality_targets],
               oncology |-> OncRanges]}]

MainFirstRun ==
    /\ last = NoCall
    /\ \E data \in MainInputs : RunRuleSet(data, 1)

MainRerun ==
    /\ last.op = "main"
    /\ last.run < MaxRuns
    /\ RunRuleSet(last.args, last.run + 1)

MainNext == MainFirstRun \/ MainRerun

SpecMain == Init /\ [][MainNext]_vars

(***************************************************************************)
(* SpecDiag: one call of generate_all_diagnostics on a flag list, with an  *)
(* outcome of the narrative-service call for every group                   *)
(***************************************************************************)
MaxFlags == 2

Outcomes ==
    {"json_object", "import_error", "api_error", "json_decode_error",
     "json_array"}

\* One finding of an episode type under a contract.
DiagFlag(episode_type, contract_id) ==
    Flag("RED", "arithmetic", "episode_cost_reconciliation", <<2>>, episode_type,
         contract_id, "Cost does not reconcile", NoRelated)

\* Flag lists of up to MaxFlags flags, numbered as one checker numbers them;
\* RETIRED-001 is a contract the metadata does not hold.
DiagFlagLists ==
    LET kinds == {DiagFlag(e, c) :
                     e \in {"TKR", "Lung NSCLC 1L", "TKR (bilateral"},
                     c \in {"MSK-2024-001", "RETIRED-001"}}
    IN  {NumberFlags("ARITH", 0, fl) :
            fl \in UNION {[1..n -> kinds] : n \in 0..MaxFlags}}

DiagNext ==
    /\ last = NoCall
    /\ \E flags \in DiagFlagLists :
         \E outcomes \in [1..Len(_group_flags_by_episode(flags)) -> Outcomes] :
           CallGenerateAllDiagnostics(flags, <<MskContract, OncContract>>,
                                      outcomes)

SpecDiag == Init /\ [][DiagNext]_vars

(***************************************************************************)
(* SpecReport: one call of generate_html_report on a flag list             *)
(***************************************************************************)
MaxShown == 3

\* Flag lists of up to MaxShown flags of any severity and contract, numbered
\* as one checker numbers them.
ReportFlagLists ==
    LET kinds == {Flag(sev, "range", "avg_episode_cost", <<1200>>, "TKR", cid,
                       "outside_bounds", NoRelated) :
                     sev \in {"RED", "YELLOW", "GREEN"},
                     cid \in {"MSK-2024-001", "ONC-2024-001", "RETIRED-001"}}
    IN  {NumberFlags("RANGE", 0, fl) :
            fl \in UNION {[1..n -> kinds] : n \in 0..MaxShown}}

ReportNext ==
    /\ last = NoCall
    /\ \E all_flags \in ReportFlagLists : CallGenerateHtmlReport(all_flags)

SpecReport == Init /\ [][ReportNext]_vars

(***************************************************************************)
(* SpecOncCross: one call of validate_cross_metrics for the oncology       *)
(* contract                                                                *)
(***************************************************************************)
OncCrossCols ==
    <<"cancer_type", "stage_group", "line_of_therapy", "episode_count",
      "avg_episode_cost", "target_price", "total_cost", "total_target",
      "pathway_adherence_rate">>

\* Rows of every combination of adherence, average cost and target price.
OncCrossRows ==
    {[OncBaseRow EXCEPT !["pathway_adherence_rate"] = adherence,
                        !["avg_episode_cost"] = avg_cost,
                        !["target_price"] = target] :
        adherence \in {NaN, Num(0), Num(500), Num(700), Num(749), Num(750)},
        avg_cost \in {Num(100000), Num(110000), Num(112000), Num(112500),
                      Num(120000)},
        target \in {NaN, Num(0), Num(100000)}}

\* Tables of one row of OncCrossRows followed by up to MaxRows - 1 rows whose
\* targets and costs leave savings or a loss.
OncCrossTables ==
    LET more == {[OncBaseRow EXCEPT !["stage_group"] = Str("NSCLC"),
                                    !["line_of_therapy"] = Str("2L+"),
                                    !["total_cost"] = Num(79999)],
                 [OncBaseRow EXCEPT !["cancer_type"] = Str("Breast"),
                                    !["total_cost"] = Num(150000)]}
    IN  {Table(OncCrossCols, <<>>)} \cup
        {Table(OncCrossCols, <<r>> \o tail) :
            r \in OncCrossRows,
            tail \in UNION {[1..n -> more] : n \in 0..(MaxRows - 1)}}

\* Quality tables whose composite row stands at the gate, below it by 2, 5,
\* 6 and 15 points and above it; with no maximum; with no composite row.
GateQualityTables ==
    {Table(QualityCols, <<QualityRow("ONC-Q-001", 80, 100, 800, 750, 10, 8),
                          QualityRow("ONC-Q-COMP", 0, 0, 0, 0, max_pts, earned)>>) :
        max_pts \in {0, 100}, earned \in {70, 79, 80, 83, 85, 90}}
    \cup {Table(QualityCols, <<QualityRow("ONC-Q-001", 80, 100, 800, 750, 10, 8)>>)}

OncCrossNext ==
    /\ last = NoCall
    /\ \E episodes_df \in OncCrossTables : \E quality_df \in GateQualityTables :
         CallValidateCrossMetrics(episodes_df, quality_df, OncContract, NoDf)

SpecOncCross == Init /\ [][OncCrossNext]_vars

(***************************************************************************)
(* SpecRule7: one call of rule 7 of the oncology rules on a quality table  *)
(***************************************************************************)
MaxMeasures == 4

\* Measures with all points earned, with 1, 2, 2 and 5 points to gain, and
\* with no points reported.
MeasureRows ==
    {QualityRow("ONC-Q-001", 80, 100, 800, 750, 10, 10),
     RowWith(QualityRow("ONC-Q-006", 80, 100, 800, 750, 10, 0),
             "points_earned", NaN),
     QualityRow("ONC-Q-002", 80, 100, 800, 750, 10, 9),
     QualityRow("ONC-Q-003", 80, 100, 800, 750, 10, 8),
     QualityRow("ONC-Q-004", 80, 100, 800, 750, 12, 10),
     QualityRow("ONC-Q-005", 80, 100, 800, 750, 10, 5)}

\* Up to MaxMeasures measures, followed by the composite row or by none.
Rule7QualityTables ==
    {Table(QualityCols, measures \o comp) :
        measures \in UNION {[1..n -> MeasureRows] : n \in 0..MaxMeasures},
        comp \in {<<>>} \cup
                 {<<QualityRow("ONC-Q-COMP", 0, 0, 0, 0, 100, earned)>> :
                     earned \in {70, 80, 83, 85}}}

Rule7Next ==
    /\ last = NoCall
    /\ \E quality_df \in Rule7QualityTables :
         CallRuleQualityGate(quality_df,
             Table(OncCrossCols, <<RowWith(OncBaseRow, "total_cost", Num(79999))>>),
             OncContract)

SpecRule7 == Init /\ [][Rule7Next]_vars

(***************************************************************************)
(* SpecRange: one call of _check_range on a value and a range definition,  *)
(* or one call of validate_ranges on a table whose rows are of mapped and  *)
(* of unmapped episode types                                               *)
(***************************************************************************)
\* Range definitions of both shapes, under either spelling of the keys, with
\* and without an expected value or target, of positive and of zero width;
\* and definitions with no ceiling at all.
RangeDefs ==
    {[min |-> 10, max |-> mx, expected |-> e] : mx \in {10, 20, 30}, e \in {12, 20}}
    \cup {[min |-> 10, max |-> mx] : mx \in {10, 20}}
    \cup {[min_acceptable |-> 10, max_acceptable |-> 20, target |-> 12],
          [min |-> 10, max |-> 20, target |-> 18, expected |-> 12],
          [max_acceptable |-> 20, target |-> 12],
          [max |-> 20, target |-> 12],
          [max_acceptable |-> 20],
          [max_acceptable |-> 20, expected |-> 12],
          [min |-> 10, expected |-> 12],
          [target |-> 12]}

RangeValues == {NaN, None} \cup {Num(v) : v \in 8..32}

CheckRangeStep ==
    /\ last = NoCall
    /\ \E value \in RangeValues : \E range_def \in RangeDefs :
         Call("_check_range", "RANGE", [value |-> value, range_def |-> range_def],
              Ok(_check_range(value, range_def, "avg_episode_cost", "TKR",
                              "MSK-2024-001")))

\* Reference ranges in which an unmapped episode type has a cost range of
\* its own as well.
MskRangesWide ==
    [MskRanges EXCEPT !.episode_cost_ranges =
        ("TKR" :> [min |-> 800, max |-> 1500, expected |-> 1000])
        @@ ("Hip Fracture" :> [min |-> 800, max |-> 1500, expected |-> 1000])]

OncRangesWide ==
    [OncRanges EXCEPT
        !.episode_cost_ranges =
            ("lung_nsclc_1L" :> [min |-> 800, max |-> 1500, expected |-> 1000])
            @@ ("Lung NSCLC 3L" :> [min |-> 800, max |-> 1500, expected |-> 1000]),
        !.pathway_adherence_benchmarks =
            ("lung_nsclc_1L" :> [min_acceptable |-> 700, expected |-> 900])
            @@ ("Lung NSCLC 3L" :> [min_acceptable |-> 700, expected |-> 900])]

\* MSK rows of a mapped type, of an unmapped type and of a missing type, with
\* metric values inside and outside their ranges.
RangeMskRows ==
    {[MskBaseRow EXCEPT !["episode_type"] = ep, !["avg_episode_cost"] = Num(cost),
                        !["avg_opioid_mme_discharge"] = Num(mme),
                        !["readmission_rate"] = Num(readmit)] :
        ep \in {Str("TKR"), Str("Hip Fracture"), NaN},
        cost \in {1000, 2000}, mme \in {20, 95}, readmit \in {30, 150}}

RangeOncRows ==
    {[OncBaseRow EXCEPT !["stage_group"] = stage, !["line_of_therapy"] = line,
                        !["avg_episode_cost"] = Num(cost),
                        !["pathway_adherence_rate"] = adherence] :
        stage \in {Str("NSCLC"), NaN}, line \in {Str("1L"), Str("3L")},
        cost \in {1000, 2000}, adherence \in {Num(600), Num(850), Num(950), NaN}}

\* Tables of one row of the set first, followed by up to MaxRows - 1 rows of
\* the list more.
RangeTables(cols, first, more) ==
    {Table(cols, <<r>> \o tail) :
        r \in first, tail \in UNION {[1..n -> more] : n \in 0..(MaxRows - 1)}}

RangesMskCall ==
    /\ last = NoCall
    /\ \E df \in RangeTables(EXPECTED_COLUMNS("msk_episodes"), RangeMskRows,
                             {MskBaseRow,
                              [MskBaseRow EXCEPT !["episode_type"] = Str("Hip Fracture"),
                                                 !["avg_episode_cost"] = Num(2000)]}) :
         \E reference_ranges \in {MskRanges, MskRangesWide} :
           CallValidateRanges(df, reference_ranges, MskContract)

RangesOncCall ==
    /\ last = NoCall
    /\ \E df \in RangeTables(EXPECTED_COLUMNS("onc_episodes"), RangeOncRows,
                             {[OncBaseRow EXCEPT !["avg_episode_cost"] = Num(2000)],
                              [OncBaseRow EXCEPT !["line_of_therapy"] = Str("3L"),
                                                 !["pathway_adherence_rate"] = Num(600)]}) :
         \E reference_ranges \in {OncRanges, OncRangesWide} :
           CallValidateRanges(df, reference_ranges, OncContract)

RangeNext == CheckRangeStep \/ RangesMskCall \/ RangesOncCall

SpecRange == Init /\ [][RangeNext]_vars

(***************************************************************************)
(* SpecRates: one call of validate_schema on an MSK or oncology episode    *)
(* table whose rows differ in one rate column, or on an MSK table whose    *)
(* rows differ in episode type and discharge dispositions                  *)
(***************************************************************************)
MaxRateRows == 3

\* Rates on the proportion scale, on the percentage scale, beyond it and
\* below zero: -5, 0.1, 0.92, 1, 10, 45, 92, 100, 200.
RateCells ==
    {NaN, Num(-5000), Num(100), Num(920), Num(1000), Num(10000), Num(45000),
     Num(92000), Num(100000), Num(200000)}

RateTables(dataset_name, col) ==
    {Table(EXPECTED_COLUMNS(dataset_name),
           [i \in 1..Len(cells) |-> RowWith(BaseRowFor(dataset_name), col, cells[i])]) :
        cells \in UNION {[1..n -> RateCells] : n \in 1..MaxRateRows}}

RateScaleCall ==
    /\ last = NoCall
    /\ \E df \in RateTables("msk_episodes", "readmission_rate")
                 \cup RateTables("onc_episodes", "pathway_adherence_rate") :
         CallValidateSchema(df,
             IF HasCol(df, "episode_type") THEN "msk_episodes" ELSE "onc_episodes",
             MskContract)

\* Rows whose dispositions sum to 0.979, 0.98, 1.0, 1.02, 1.021 or, with the
\* home share missing, to 0.38; surgical and conservative.
DispositionRows ==
    {[MskBaseRow EXCEPT !["episode_type"] = ep, !["discharge_home_pct"] = home] :
        ep \in {Str("TKR"), Str("THR"), Str("Conservative LBP")},
        home \in {NaN, Num(599), Num(600), Num(620), Num(640), Num(641)}}

DispositionTables ==
    LET cols == EXPECTED_COLUMNS("msk_episodes")
    IN  {Table(c, rows) :
            c \in {cols, Without(cols, "discharge_irf_pct")},
            rows \in UNION {[1..n -> DispositionRows] : n \in 1..MaxRows}}

DispositionCall ==
    /\ last = NoCall
    /\ \E df \in DispositionTables : \E dataset_name \in {"msk_episodes"} :
         CallValidateSchema(df, dataset_name, MskContract)

RatesNext == RateScaleCall \/ DispositionCall

SpecRates == Init /\ [][RatesNext]_vars

(***************************************************************************)
(* SpecPoints: one call of validate_arithmetic on a quality table of up to *)
(* MaxComponents measures, with or without a composite row                 *)
(***************************************************************************)
MaxComponents == 2

\* Measures worth 8 of 10, 10 of 10, 5 of 20 points, and one whose points
\* are missing.
ComponentRows ==
    {QualityRow("ONC-Q-001", 80, 100, 800, 750, 10, 8),
     QualityRow("ONC-Q-002", 80, 100, 800, 750, 10, 10),
     QualityRow("ONC-Q-003", 80, 100, 800, 750, 20, 5),
     RowWith(QualityRow("ONC-Q-004", 80, 100, 800, 750, 10, 8), "points_earned", NaN)}

CompositeRowsOffered ==
    {RowWith(QualityRow("ONC-Q-COMP", 0, 0, 0, 0, mx, 0), "points_earned", earned) :
        mx \in {10, 20, 30}, earned \in {Num(8), Num(13), Num(18), NaN}}

\* The measures first and then the composite row, if any.
PointsTables ==
    {Table(QualityCols, measures \o comp) :
        measures \in UNION {[1..n -> ComponentRows] : n \in 0..MaxComponents},
        comp \in {<<>>} \cup {<<c>> : c \in CompositeRowsOffered}}

PointsNext ==
    /\ last = NoCall
    /\ \E quality_df \in PointsTables : \E contract \in {MskContract, OncContract} :
         CallValidateArithmetic(Table(ArithCols(contract.specialty), <<>>),
                                quality_df, contract)

SpecPoints == Init /\ [][PointsNext]_vars

(***************************************************************************)
(* SpecEol: one call of validate_cross_metrics, or of rule 4 of the        *)
(* oncology rules, on a quality table in which each end-of-life measure    *)
(* fails, sits at its target or is absent                                  *)
(***************************************************************************)
EolIds == <<"ONC-Q-002", "ONC-Q-003", "ONC-Q-004", "ONC-Q-005", "ONC-Q-006">>

\* The row of an end-of-life measure: failing (0.30 against a target of
\* 0.20 to stay under, or of 0.40 to reach), at its target, on the good
\* side of it, or with no rate reported.
EolRow(id, status) ==
    LET high   == id \in {"ONC-Q-002", "ONC-Q-005", "ONC-Q-006"}
        target == IF high THEN 200 ELSE 400
        row(rate) == QualityRow(id, 30, 100, rate, target, 10, 5)
    IN  CASE status = "fail" -> row(300)
          [] status = "at_target" -> row(target)
          [] status = "good" -> row(IF high THEN 100 ELSE 500)
          [] OTHER -> RowWith(row(300), "rate", NaN)

\* The Advance-Care-Planning row: absent, or with a rate of 0.40, 0.50, or
\* none.
AcpRows ==
    {<<>>} \cup
    {<<RowWith(QualityRow("ONC-Q-009", 40, 100, 400, 650, 10, 5), "rate", r)>> :
        r \in {Num(400), Num(500), NaN}}

EolTables ==
    LET rowsOf(st) ==
            LET present == SelectSeq(EolIds, LAMBDA id : st[id] # "absent")
            IN  [i \in 1..Len(present) |-> EolRow(present[i], st[present[i]])]
        ids == {EolIds[i] : i \in 1..5}
    IN  {Table(QualityCols, rowsOf(st) \o acp) :
            st \in [ids -> {"fail", "at_target", "absent"}], acp \in AcpRows}
        \cup
        {Table(QualityCols, rowsOf(st) \o acp
                            \o <<QualityRow("ONC-Q-COMP", 0, 0, 0, 0, 100, 90)>>) :
            st \in [ids -> {"fail", "good", "no_rate"}], acp \in AcpRows}
        \cup
        {Table(QualityCols, <<EolRow("ONC-Q-002", "fail"), EolRow("ONC-Q-002", "fail"),
                              EolRow("ONC-Q-003", "fail")>> \o acp) : acp \in AcpRows}

EolCrossCall ==
    /\ last = NoCall
    /\ \E quality_df \in EolTables :
         CallValidateCrossMetrics(Table(OncCrossCols, <<OncBaseRow>>), quality_df,
                                  OncContract, NoDf)

CallRuleEolAcp(quality_df, contract) ==
    Call("_rule_eol_acp_correlation", "ONC",
         [quality_df |-> quality_df, contract |-> contract],
         _rule_eol_acp_correlation(quality_df, contract))

EolRuleCall ==
    /\ last = NoCall
    /\ \E quality_df \in EolTables : CallRuleEolAcp(quality_df, OncContract)

EolNext == EolCrossCall \/ EolRuleCall

SpecEol == Init /\ [][EolNext]_vars

(***************************************************************************)
(* SpecDrugs: one call of validate_cross_metrics for the oncology contract *)
(* on a drug-detail table whose rows differ in cost per claim, hospital    *)
(* outpatient share, claim count and biosimilar marker                     *)
(***************************************************************************)
\* The biosimilar marker as a boolean and as the text a CSV column of mixed
\* content holds.
BiosimilarMarkers ==
    {Bool(TRUE), Bool(FALSE), Str("True"), Str("False"), Str("true")}

SiteDrugRows ==
    {DrugRow("Pembrolizumab", bio, claims, claims * per_claim, per_claim, hopd,
             Date(2020, 1, 1), Bool(FALSE)) :
        bio \in BiosimilarMarkers, claims \in {33, 50},
        per_claim \in {2000, 2001, 3000}, hopd \in {600, 601, 700}}
    \cup
    {RowWith(DrugRow("Pembrolizumab", Bool(FALSE), 50, 150000, 3000, 700,
                     Date(2020, 1, 1), Bool(FALSE)), c, NaN) :
        c \in {"avg_cost_per_claim", "site_of_service_hopd_pct", "total_claims",
               "is_biosimilar"}}

\* One row of SiteDrugRows, followed by up to MaxRows - 1 rows of two other
\* drugs, one in scope of the check and one not.
SiteDrugTables ==
    LET more == {DrugRow("Nivolumab", Bool(FALSE), 40, 120000, 3000, 800,
                         Date(2020, 1, 1), Bool(FALSE)),
                 DrugRow("Filgrastim-sndz", Bool(TRUE), 40, 120000, 3000, 800,
                         Date(2020, 1, 1), Bool(FALSE))}
    IN  {Table(EXPECTED_COLUMNS("onc_drug_detail"), <<r>> \o tail) :
            r \in SiteDrugRows,
            tail \in UNION {[1..n -> more] : n \in 0..(MaxRows - 1)}}

DrugsNext ==
    /\ last = NoCall
    /\ \E onc_drugs_df \in SiteDrugTables :
         CallValidateCrossMetrics(Table(OncCrossCols, <<OncBaseRow>>),
                                  Table(QualityCols, <<>>), OncContract,
                                  onc_drugs_df)

SpecDrugs == Init /\ [][DrugsNext]_vars

(***************************************************************************)
(* SpecDrugRules: one call of an oncology drug rule (biosimilar savings,   *)
(* site-of-service savings, novel therapy impact) on a drug-detail table   *)
(***************************************************************************)
CallRuleSiteOfService(drugs_df, contract) ==
    Call("_rule_site_of_service_savings", "ONC",
         [drugs_df |-> drugs_df, contract |-> contract],
         _rule_site_of_service_savings(drugs_df, contract))

\* Rows around the $5,000 threshold of the savings estimate: 11 claims x 0.30
\* x $3000 x 0.50 = $4,950, 10 x 0.25 x $4000 x 0.50 = $5,000, 12 x 0.30 x
\* $3000 x 0.50 = $5,400.
SiteRuleDrugRows ==
    SiteDrugRows
    \cup
    {DrugRow("Pembrolizumab", bio, claims, claims * per_claim, per_claim, hopd,
             Date(2020, 1, 1), Bool(FALSE)) :
        bio \in {Bool(TRUE), Bool(FALSE)}, claims \in {10, 11, 12},
        per_claim \in {3000, 4000}, hopd \in {650, 700}}

SiteRuleDrugTables ==
    LET more == {DrugRow("Nivolumab", Bool(FALSE), 40, 120000, 3000, 800,
                         Date(2020, 1, 1), Bool(FALSE)),
                 DrugRow("Filgrastim-sndz", Bool(TRUE), 40, 120000, 3000, 800,
                         Date(2020, 1, 1), Bool(FALSE))}
    IN  {Table(EXPECTED_COLUMNS("onc_drug_detail"), <<r>> \o tail) :
            r \in SiteRuleDrugRows,
            tail \in UNION {[1..n -> more] : n \in 0..(MaxRows - 1)}}

SiteRuleCall ==
    /\ last = NoCall
    /\ \E drugs_df \in SiteRuleDrugTables :
         CallRuleSiteOfService(drugs_df, OncContract)

CallRuleBiosimilar(drugs_df, episodes_df, contract) ==
    Call("_rule_biosimilar_savings", "ONC",
         [drugs_df |-> drugs_df, episodes_df |-> episodes_df,
          contract |-> contract],
         _rule_biosimilar_savings(drugs_df, episodes_df, contract))

\* A drug row of the given name, marker, claim count and cost per claim.
PairRow(name, bio, claims, per_claim) ==
    DrugRow(name, bio, claims, claims * per_claim, per_claim, 300,
            Date(2020, 1, 1), Bool(FALSE))

\* The brand and the biosimilar of trastuzumab, in either order: brand shares
\* of 0.50, 0.51, 0.80, 0.81 and no claims at all, the biosimilar cheaper or
\* dearer than the brand, the markers as booleans, as texts, or missing on
\* the biosimilar's row.
TrastuzumabRows ==
    UNION {
        LET brand == PairRow("Trastuzumab (Herceptin)", bm, cl[1], 3000)
            bio   == PairRow("Trastuzumab-dkst", sm, cl[2], bio_cost)
        IN  {<<brand, bio>>, <<bio, brand>>} :
        bm \in {Bool(FALSE), Str("False")},
        sm \in {Bool(TRUE), Str("True"), NaN},
        cl \in {<<0, 0>>, <<50, 50>>, <<51, 49>>, <<80, 20>>, <<81, 19>>},
        bio_cost \in {2500, 3500}}

\* What follows the trastuzumab rows: nothing, the bevacizumab pair with a
\* brand share of 0.90, or a second row of the brand.
PairTails ==
    {<<>>,
     <<PairRow("Bevacizumab (Avastin)", Bool(FALSE), 90, 4000),
       PairRow("Bevacizumab-awwb", Bool(TRUE), 10, 3000)>>,
     <<PairRow("Trastuzumab (Herceptin)", Bool(FALSE), 10, 3000)>>}

\* Tables with one drug of a pair only, with a claim count or a cost missing,
\* and with no row.
PairTablesIncomplete ==
    LET cols  == EXPECTED_COLUMNS("onc_drug_detail")
        brand == PairRow("Trastuzumab (Herceptin)", Bool(FALSE), 90, 3000)
        bio   == PairRow("Trastuzumab-dkst", Bool(TRUE), 10, 2500)
    IN  {Table(cols, <<>>), Table(cols, <<brand>>), Table(cols, <<bio>>)}
        \cup {Table(cols, <<RowWith(brand, c, NaN), bio>>) :
                 c \in {"total_claims", "avg_cost_per_claim"}}
        \cup {Table(cols, <<brand, RowWith(bio, c, NaN)>>) :
                 c \in {"total_claims", "avg_cost_per_claim"}}

PairTables ==
    {Table(EXPECTED_COLUMNS("onc_drug_detail"), rows \o tail) :
        rows \in TrastuzumabRows, tail \in PairTails}
    \cup PairTablesIncomplete

BiosimilarRuleCall ==
    /\ last = NoCall
    /\ \E drugs_df \in PairTables :
         CallRuleBiosimilar(drugs_df, Table(OncCrossCols, <<OncBaseRow>>),
                            OncContract)

CallRuleNovelTherapy(drugs_df, episodes_df, contract) ==
    Call("_rule_novel_therapy_impact", "ONC",
         [drugs_df |-> drugs_df, episodes_df |-> episodes_df,
          contract |-> contract],
         _rule_novel_therapy_impact(drugs_df, episodes_df, contract))

\* The contract without one of its keys.
ContractWithout(contract, key) ==
    [k \in DOMAIN contract \ {key} |-> contract[k]]

\* The oncology contract with and without the carve-out, with the lookback
\* of 18 months stated, left to the default and set to 12 months, and with
\* the as-of date 2025-01-15 stated, left to the default, and set to the
\* last day of August 2024, eighteen months after the end of February 2023.
NovelContracts ==
    {OncContract,
     [OncContract EXCEPT !.novel_therapy_carveout = FALSE],
     ContractWithout(OncContract, "novel_therapy_carveout"),
     ContractWithout(OncContract, "novel_therapy_lookback_months"),
     ContractWithout(OncContract, "data_as_of"),
     [OncContract EXCEPT !.novel_therapy_lookback_months = 12],
     [OncContract EXCEPT !.data_as_of = Date(2024, 8, 31)]}

\* Approval dates on both sides of the cutoffs 2023-07-15, 2024-01-15 and
\* 2023-02-28, after the as-of date, and missing.
ApprovalDates ==
    {Date(2023, 2, 27), Date(2023, 2, 28), Date(2023, 7, 14), Date(2023, 7, 15),
     Date(2024, 1, 14), Date(2024, 1, 15), Date(2025, 6, 1), NaN}

NovelDrugRows ==
    {DrugRow("Tarlatamab", Bool(FALSE), 20, 300000, 15000, 300, fda, novel) :
        fda \in ApprovalDates, novel \in {Bool(TRUE), Bool(FALSE), Str("True")}}
    \cup
    {RowWith(DrugRow("Tarlatamab", Bool(FALSE), 20, 300000, 15000, 300,
                     Date(2024, 6, 1), Bool(TRUE)), "total_cost", NaN)}

\* One row of NovelDrugRows, followed by up to MaxRows - 1 rows of drugs
\* approved long ago, inside every window, and inside without the marker.
NovelDrugTables ==
    LET more == {DrugRow("Pembrolizumab", Bool(FALSE), 50, 150000, 3000, 300,
                         Date(2014, 9, 4), Bool(FALSE)),
                 DrugRow("Datopotamab", Bool(FALSE), 5, 40000, 8000, 300,
                         Date(2024, 6, 1), Bool(TRUE)),
                 DrugRow("Filgrastim-txid", Bool(TRUE), 5, 1000, 200, 300,
                         Date(2024, 6, 1), Bool(FALSE))}
        cols == EXPECTED_COLUMNS("onc_drug_detail")
    IN  {Table(cols, <<>>)} \cup
        {Table(cols, <<r>> \o tail) :
            r \in NovelDrugRows,
            tail \in UNION {[1..n -> more] : n \in 0..(MaxRows - 1)}}

\* Episodes whose cost is below the target by $20,000.
NovelEpisodes ==
    Table(OncCrossCols, <<[OncBaseRow EXCEPT !["total_cost"] = Num(80000)]>>)

NovelRuleCall ==
    /\ last = NoCall
    /\ \E drugs_df \in NovelDrugTables : \E contract \in NovelContracts :
         CallRuleNovelTherapy(drugs_df, NovelEpisodes, contract)

DrugRulesNext == SiteRuleCall \/ BiosimilarRuleCall \/ NovelRuleCall

SpecDrugRules == Init /\ [][DrugRulesNext]_vars

(***************************************************************************)
(* SpecVolume: one call of rule 6 of the oncology rules, episode volume    *)
(* against incidence, on an episode table of up to MaxVolumeRows rows      *)
(***************************************************************************)
MaxVolumeRows == 2

CallRuleVolume(episodes_df, reference_ranges, contract) ==
    Call("_rule_volume_vs_incidence", "ONC",
         [episodes_df |-> episodes_df, reference_ranges |-> reference_ranges,
          contract |-> contract],
         _rule_volume_vs_incidence(episodes_df, reference_ranges, contract))

\* Incidence per 1000 members: a triple for breast and lung; for breast only;
\* and with the lung entry lacking its expected rate.
IncidenceRanges ==
    {[OncRanges EXCEPT !.incidence_rates_ma_per_1000 = inc] :
        inc \in {[breast |-> [min |-> 2000, max |-> 4000, expected |-> 3000],
                  lung |-> [min |-> 1000, max |-> 2000, expected |-> 1500]],
                 [breast |-> [min |-> 2000, max |-> 4000, expected |-> 3000]],
                 [breast |-> [min |-> 2000, max |-> 4000, expected |-> 3000],
                  lung |-> [min |-> 1000, max |-> 2000]]}}

\* With 4000 members the breast rate is count / 4: RED above 32 episodes,
\* YELLOW below 4; the lung rate is RED above 16, YELLOW below 2.
VolumeRows ==
    {[OncBaseRow EXCEPT !["cancer_type"] = Str(cancer),
                        !["episode_count"] = count] :
        cancer \in {"Breast", "Lung"},
        count \in {Num(0), Num(1), Num(3), Num(4), Num(16), Num(20), Num(32),
                   Num(33), NaN}}
    \cup
    {[OncBaseRow EXCEPT !["cancer_type"] = cancer,
                        !["episode_count"] = Num(40)] :
        cancer \in {Str("Melanoma"), NaN}}

VolumeTables ==
    {Table(OncCrossCols, rows) :
        rows \in UNION {[1..n -> VolumeRows] : n \in 0..MaxVolumeRows}}

VolumeContracts ==
    {OncContract,
     [OncContract EXCEPT !.attributed_members = 0],
     [OncContract EXCEPT !.attributed_members = 8000],
     ContractWithout(OncContract, "attributed_members")}

VolumeNext ==
    /\ last = NoCall
    /\ \E episodes_df \in VolumeTables : \E reference_ranges \in IncidenceRanges :
         \E contract \in VolumeContracts :
            CallRuleVolume(episodes_df, reference_ranges, contract)

SpecVolume == Init /\ [][VolumeNext]_vars

(***************************************************************************)
(* SpecArthroscopy: validate_cross_metrics and then validate_msk_rules on  *)
(* the same MSK episodes and contract, as main calls them                  *)
(***************************************************************************)
\* With 4000 members the rate is count / 4: 25 per 1000 at 100 episodes.
ArthroscopyRows ==
    {[MskBaseRow EXCEPT !["episode_type"] = Str("Knee Arthroscopy"),
                        !["episode_count"] = count] :
        count \in {Num(0), Num(50), Num(100), Num(101), Num(120), NaN}}
    \cup
    {MskBaseRow, [MskBaseRow EXCEPT !["prom_collection_rate"] = Num(400)]}

\* Tables of up to MaxRows rows, with and without the optional PROM
\* improvement column.
ArthroscopyTables ==
    {Table(cols, rows) :
        cols \in {EXPECTED_COLUMNS("msk_episodes"),
                  Without(EXPECTED_COLUMNS("msk_episodes"),
                          "prom_improvement_rate")},
        rows \in UNION {[1..n -> ArthroscopyRows] : n \in 0..MaxRows}}

ArthroscopyContracts ==
    {MskContract,
     [MskContract EXCEPT !.attributed_members = 0],
     ContractWithout(MskContract, "attributed_members")}

ArthroscopyCrossCall ==
    /\ last = NoCall
    /\ \E episodes_df \in ArthroscopyTables : \E contract \in ArthroscopyContracts :
         CallValidateCrossMetrics(episodes_df, Table(QualityCols, <<>>),
                                  contract, NoDf)

ArthroscopyRulesCall ==
    /\ last.op = "validate_cross_metrics"
    /\ CallValidateMskRules(last.args.episodes_df, last.args.quality_df,
                            MskRanges, last.args.contract)

ArthroscopyNext == ArthroscopyCrossCall \/ ArthroscopyRulesCall

SpecArthroscopy == Init /\ [][ArthroscopyNext]_vars

(***************************************************************************)
(* SpecGate: validate_cross_metrics and then rule 7 of the oncology rules  *)
(* on the same quality table, episodes and contract                        *)
(***************************************************************************)
\* Composite rows at the gate of 85, below it by 2, 5, 6 and 15 points and
\* above it; with no maximum, a negative maximum and missing points; and a
\* table without a composite row.  Two measures have points to gain.
GatePairQualityTables ==
    LET measures == <<QualityRow("ONC-Q-001", 80, 100, 800, 750, 10, 8),
                      QualityRow("ONC-Q-002", 10, 100, 100, 150, 10, 5)>>
    IN  {Table(QualityCols,
               measures \o <<QualityRow("ONC-Q-COMP", 0, 0, 0, 0, max_pts, earned)>>) :
            max_pts \in {0, 100}, earned \in {70, 79, 80, 83, 85, 90}}
        \cup
        {Table(QualityCols,
               measures \o <<QualityRow("ONC-Q-COMP", 0, 0, 0, 0, -100, earned)>>) :
            earned \in {-83, -90}}
        \cup
        {Table(QualityCols,
               measures \o <<RowWith(QualityRow("ONC-Q-COMP", 0, 0, 0, 0, 100, 83),
                                     c, NaN)>>) :
            c \in {"points_earned", "max_points"}}
        \cup {Table(QualityCols, measures)}

\* Episodes that leave savings of $20,001, a loss, nothing to compare, and a
\* row whose target price is 0 under a cost and an adherence of 0.70.
GatePairEpisodeRows ==
    {[OncBaseRow EXCEPT !["total_cost"] = Num(79999)],
     [OncBaseRow EXCEPT !["total_cost"] = Num(150000)],
     [OncBaseRow EXCEPT !["total_cost"] = NaN],
     [OncBaseRow EXCEPT !["target_price"] = Num(0),
                        !["pathway_adherence_rate"] = Num(700)]}

GatePairEpisodes ==
    {Table(OncCrossCols, rows) :
        rows \in UNION {[1..n -> GatePairEpisodeRows] : n \in 0..MaxRows}}

GatePairContracts ==
    {OncContract,
     ContractWithout(OncContract, "quality_gate_minimum"),
     ContractWithout(OncContract, "sharing_rate_savings")}

GateCrossCall ==
    /\ last = NoCall
    /\ \E quality_df \in GatePairQualityTables : \E episodes_df \in GatePairEpisodes :
         \E contract \in GatePairContracts :
            CallValidateCrossMetrics(episodes_df, quality_df, contract, NoDf)

GateRuleCall ==
    /\ last.op = "validate_cross_metrics"
    /\ CallRuleQualityGate(last.args.quality_df, last.args.episodes_df,
                           last.args.contract)

GateNext == GateCrossCall \/ GateRuleCall

SpecGate == Init /\ [][GateNext]_vars

(***************************************************************************)
(* SpecPathway: validate_cross_metrics and then rule 1 of the oncology     *)
(* rules on the same episodes and contract                                 *)
(***************************************************************************)
CallRulePathway(episodes_df, contract) ==
    Call("_rule_pathway_adherence_cost", "ONC",
         [episodes_df |-> episodes_df, contract |-> contract],
         _rule_pathway_adherence_cost(episodes_df, contract))

\* The rows of OncCrossRows, a row between the two adherence thresholds, and
\* rows in scope of both checks whose episode count is missing or 0.
PathwayPairRows ==
    OncCrossRows
    \cup
    {[OncBaseRow EXCEPT !["pathway_adherence_rate"] = Num(780),
                        !["avg_episode_cost"] = Num(120000),
                        !["target_price"] = Num(100000)]}
    \cup
    {[OncBaseRow EXCEPT !["pathway_adherence_rate"] = Num(700),
                        !["avg_episode_cost"] = Num(120000),
                        !["target_price"] = Num(100000),
                        !["episode_count"] = count] : count \in {NaN, Num(0)}}

\* One row of PathwayPairRows, followed by up to MaxRows - 1 rows that both
\* checks flag or both pass over.
PathwayPairTables ==
    LET more == {[OncBaseRow EXCEPT !["stage_group"] = Str("SCLC"),
                                    !["pathway_adherence_rate"] = Num(500),
                                    !["avg_episode_cost"] = Num(120000),
                                    !["target_price"] = Num(100000)],
                 [OncBaseRow EXCEPT !["cancer_type"] = Str("Breast")]}
    IN  {Table(OncCrossCols, <<r>> \o tail) :
            r \in PathwayPairRows,
            tail \in UNION {[1..n -> more] : n \in 0..(MaxRows - 1)}}

\* Adherence targets of 0.80, the default, 0.75 and 0.70.
PathwayContracts ==
    {OncContract,
     ContractWithout(OncContract, "pathway_adherence_target"),
     [OncContract EXCEPT !.pathway_adherence_target = 750],
     [OncContract EXCEPT !.pathway_adherence_target = 700]}

PathwayCrossCall ==
    /\ last = NoCall
    /\ \E episodes_df \in PathwayPairTables : \E contract \in PathwayContracts :
         CallValidateCrossMetrics(episodes_df, Table(QualityCols, <<>>),
                                  contract, NoDf)

PathwayRuleCall ==
    /\ last.op = "validate_cross_metrics"
    /\ CallRulePathway(last.args.episodes_df, last.args.contract)

PathwayNext == PathwayCrossCall \/ PathwayRuleCall

SpecPathway == Init /\ [][PathwayNext]_vars

(***************************************************************************)
(* SpecDiagRun: validate_schema on the MSK and on the oncology episodes,   *)
(* then generate_all_diagnostics on the flags of both                      *)
(***************************************************************************)
\* Episode tables of a kind: complete; an expected column missing; an
\* unexpected column; a negative count; a rate above 1; for MSK, discharge
\* dispositions that do not add up.
DiagRunTables(dataset_name) ==
    LET cols == EXPECTED_COLUMNS(dataset_name)
        base == BaseRowFor(dataset_name)
        rate == IF dataset_name = "msk_episodes"
                THEN "readmission_rate" ELSE "pathway_adherence_rate"
    IN  {Table(cols, <<base>>),
         Table(Without(cols, "episode_count"), <<base>>),
         Table(Append(cols, "extra_cost_note"),
               <<RowPlus(base, "extra_cost_note", Str("memo"))>>),
         Table(cols, <<RowWith(base, "episode_count", Num(-5))>>),
         Table(cols, <<RowWith(base, rate, Num(45000))>>)}
        \cup (IF dataset_name = "msk_episodes"
              THEN {Table(cols, <<RowWith(base, "discharge_home_pct", Num(500))>>)}
              ELSE {})

DiagRunMskSchema ==
    /\ last = NoCall
    /\ \E df \in DiagRunTables("msk_episodes") :
         CallValidateSchema(df, "msk_episodes", MskContract)

DiagRunOncSchema ==
    /\ last.op = "validate_schema"
    /\ last.args.dataset_name = "msk_episodes"
    /\ \E df \in DiagRunTables("onc_episodes") :
         CallValidateSchema(df, "onc_episodes", OncContract)

DiagRunDiagnostics ==
    /\ last.op = "validate_schema"
    /\ last.args.dataset_name = "onc_episodes"
    /\ \E outcomes \in [1..Len(_group_flags_by_episode(emitted)) -> Outcomes] :
         CallGenerateAllDiagnostics(emitted, <<MskContract, OncContract>>,
                                    outcomes)

DiagRunNext == DiagRunMskSchema \/ DiagRunOncSchema \/ DiagRunDiagnostics

SpecDiagRun == Init /\ [][DiagRunNext]_vars

(***************************************************************************)
(* Claims                                                                  *)
(***************************************************************************)
Severities(flags) == {flags[i].severity : i \in 1..Len(flags)}

\* C1: validate_schema returns, for every table, a flag list that is not
\* empty; the list holds a GREEN flag exactly when it holds no RED and no
\* YELLOW flag, and then the GREEN schema_check flag is its only element.
C1_SchemaPassSignal ==
    last.op = "validate_schema" =>
        /\ ~last.raised
        /\ last.flags # <<>>
        /\ ("GREEN" \in Severities(last.flags))
             <=> ({"RED", "YELLOW"} \cap Severities(last.flags) = {})
        /\ "GREEN" \in Severities(last.flags) =>
             /\ Len(last.flags) = 1
             /\ last.flags[1].metric_name = "schema_check"

\* The same statement for the calls that return.
C1_ReturnedCalls ==
    (last.op = "validate_schema" /\ ~last.raised) =>
        /\ last.flags # <<>>
        /\ ("GREEN" \in Severities(last.flags))
             <=> ({"RED", "YELLOW"} \cap Severities(last.flags) = {})
        /\ "GREEN" \in Severities(last.flags) =>
             /\ Len(last.flags) = 1
             /\ last.flags[1].metric_name = "schema_check"

\* The RED episode_cost_reconciliation flag of an episode row is among the
\* flags of the last call.
HasCostReconciliationFlag(row, ep_label) ==
    \E k \in 1..Len(last.flags) :
        /\ last.flags[k].metric_name = "episode_cost_reconciliation"
        /\ last.flags[k].severity = "RED"
        /\ last.flags[k].episode_type = ep_label
        /\ last.flags[k].related_metrics =
             [episode_count |-> row["episode_count"].v,
              avg_episode_cost |-> row["avg_episode_cost"].v,
              total_cost |-> row["total_cost"].v]

InCostScope(row) ==
    /\ notna(row["episode_count"]) /\ row["episode_count"].v # 0
    /\ notna(row["avg_episode_cost"]) /\ notna(row["total_cost"])

\* C7: for every episode row with a present, non-zero episode_count and
\* present avg_episode_cost and total_cost, validate_arithmetic emits the RED
\* episode_cost_reconciliation flag exactly when
\* |episode_count * avg_episode_cost - total_cost| exceeds 1% of total_cost.
C7_CostReconciliation ==
    last.op = "validate_arithmetic" =>
        /\ ~last.raised
        /\ \A i \in 1..Len(last.args.episodes_df.rows) :
             LET row == last.args.episodes_df.rows[i]
                 ep_label == IF HasCol(last.args.episodes_df, "episode_type")
                             THEN CellStr(row["episode_type"]) ELSE OncLabel(row)
             IN  InCostScope(row) =>
                   (HasCostReconciliationFlag(row, ep_label)
                      <=> Abs(row["episode_count"].v * row["avg_episode_cost"].v
                                - row["total_cost"].v) * 100
                            > row["total_cost"].v)

\* The same statement for the rows whose total_cost is positive.
C7_PositiveTotals ==
    last.op = "validate_arithmetic" =>
        /\ ~last.raised
        /\ \A i \in 1..Len(last.args.episodes_df.rows) :
             LET row == last.args.episodes_df.rows[i]
                 ep_label == IF HasCol(last.args.episodes_df, "episode_type")
                             THEN CellStr(row["episode_type"]) ELSE OncLabel(row)
             IN  (InCostScope(row) /\ row["total_cost"].v > 0) =>
                   (HasCostReconciliationFlag(row, ep_label)
                      <=> Abs(row["episode_count"].v * row["avg_episode_cost"].v
                                - row["total_cost"].v) * 100
                            > row["total_cost"].v)

\* C2: over any sequence of checker calls in one process no two emitted flags
\* share a flag_id, within each prefix the numeric suffixes of successively
\* emitted flags increase strictly, and no counter falls back below a suffix
\* it has given out.
C2_UniqueIncreasingIds ==
    /\ \A i, j \in 1..Len(emitted) :
         i # j => emitted[i].flag_id # emitted[j].flag_id
    /\ \A i, j \in 1..Len(emitted) :
         (i < j /\ IdPrefix(emitted[i]) = IdPrefix(emitted[j]))
            => IdSuffix(emitted[i]) < IdSuffix(emitted[j])
    /\ \A i \in 1..Len(emitted) :
         IdSuffix(emitted[i]) <= counters[IdPrefix(emitted[i])]

\* A later call of a checker has emitted flags with a prefix that an earlier
\* call already used, and flags of another prefix are on record too.
C2_RepeatedPrefix ==
    /\ last.op # "none" /\ ~last.raised /\ last.flags # <<>>
    /\ \E i \in 1..(Len(emitted) - Len(last.flags)) :
         IdPrefix(emitted[i]) = IdPrefix(last.flags[1])
    /\ \E i \in 1..Len(emitted) : IdPrefix(emitted[i]) # IdPrefix(last.flags[1])

RuleFunctions ==
    {"validate_arithmetic", "validate_ranges", "validate_cross_metrics",
     "validate_msk_rules", "validate_onc_rules"}

\* C4: on tables in which an optional column is absent or optional cells are
\* missing, every rule function returns a flag list and never raises.
C4_RuleFunctionsNeverRaise ==
    last.op \in RuleFunctions => ~last.raised

\* The flag without its identifier.
WithoutId(flag) == [flag EXCEPT !.flag_id = <<>>]

\* C3: when the rule set of main has run again on the same data, the flags of
\* the latest run and those of the run before it are equally many and agree
\* position by position on every field but flag_id, and every suffix of the
\* latest run is greater than every suffix the run before gave out under
\* the same prefix.
C3_RerunSameFlagsLaterIds ==
    (last.op = "main" /\ last.run >= 2 /\ ~last.raised) =>
        LET n      == Len(last.flags)
            before == SubSeq(emitted, Len(emitted) - 2 * n + 1, Len(emitted) - n)
        IN  /\ Len(emitted) = last.run * n
            /\ SubSeq(emitted, Len(emitted) - n + 1, Len(emitted)) = last.flags
            /\ \A i \in 1..n :
                 /\ WithoutId(before[i]) = WithoutId(last.flags[i])
                 /\ before[i].flag_id # last.flags[i].flag_id
                 /\ IdPrefix(before[i]) = IdPrefix(last.flags[i])
            /\ \A i, j \in 1..n :
                 IdPrefix(before[i]) = IdPrefix(last.flags[j])
                    => IdSuffix(before[i]) < IdSuffix(last.flags[j])

\* A second run has returned flags of at least three prefixes, two of them
\* with the same prefix.
C3_SecondRunReturned ==
    /\ last.op = "main" /\ last.run = 2 /\ ~last.raised
    /\ Cardinality({IdPrefix(last.flags[i]) : i \in 1..Len(last.flags)}) >= 3
    /\ \E i, j \in 1..Len(last.flags) :
         i # j /\ IdPrefix(last.flags[i]) = IdPrefix(last.flags[j])

\* The narratives of the last call that are about one episode type.
NarrativesOf(episode_type) ==
    SelectSeq(last.narratives, LAMBDA n : n.episode_type = episode_type)

\* The contract of a group, that of its first flag, is in the metadata.
GroupContractKnown(episode_type) ==
    LET episode_flags == SelectSeq(last.args.flags,
                             LAMBDA f : f.episode_type = episode_type)
    IN  \E k \in 1..Len(last.args.contracts) :
          last.args.contracts[k].contract_id = episode_flags[1].contract_id

\* C5: generate_all_diagnostics returns without raising and leaves the flag
\* list as it was; every group whose contract is known gets exactly one
\* narrative, whatever the outcome of its call, and every group whose
\* contract is not found gets none.
C5_OneNarrativePerKnownGroup ==
    last.op = "generate_all_diagnostics" =>
        /\ ~last.raised
        /\ last.flags_after = last.args.flags
        /\ \A i \in 1..Len(last.args.flags) :
             LET episode_type == last.args.flags[i].episode_type
             IN  Len(NarrativesOf(episode_type))
                   = IF GroupContractKnown(episode_type) THEN 1 ELSE 0

\* The same statement for the calls in which every reply that parses is a
\* JSON object and every episode type is a regular expression.
C5_ObjectReplies ==
    (/\ last.op = "generate_all_diagnostics"
     /\ \A k \in DOMAIN last.args.outcomes : last.args.outcomes[k] # "json_array"
     /\ \A i \in 1..Len(last.args.flags) :
          last.args.flags[i].episode_type \notin NotAPattern) =>
        /\ ~last.raised
        /\ last.flags_after = last.args.flags
        /\ \A i \in 1..Len(last.args.flags) :
             LET episode_type == last.args.flags[i].episode_type
             IN  Len(NarrativesOf(episode_type))
                   = IF GroupContractKnown(episode_type) THEN 1 ELSE 0

\* No YELLOW or GREEN flag precedes a RED one, no GREEN flag a YELLOW one.
RedYellowGreen(s) ==
    \A i, j \in 1..Len(s) :
        i < j =>
            /\ ~(s[i].severity \in {"YELLOW", "GREEN"} /\ s[j].severity = "RED")
            /\ ~(s[i].severity = "GREEN" /\ s[j].severity = "YELLOW")

\* s holds the flags of t, each as often as t does, in some order.
IsPermutation(s, t) ==
    /\ Len(s) = Len(t)
    /\ \A f \in {t[i] : i \in 1..Len(t)} \cup {s[i] : i \in 1..Len(s)} :
         Cardinality({i \in 1..Len(s) : s[i] = f})
           = Cardinality({i \in 1..Len(t) : t[i] = f})

\* C6: msk_flags, onc_flags and all_flags of generate_html_report each show
\* RED before YELLOW before GREEN and each are a permutation of the flags
\* they were built from: the flags of the MSK contract, those of the
\* oncology contract, and all flags.
C6_ShownBySeverity ==
    last.op = "generate_html_report" =>
        LET all_flags == last.args.all_flags
            OfContract(cid) == SelectSeq(all_flags, LAMBDA f : f.contract_id = cid)
        IN  /\ RedYellowGreen(last.shown.msk_flags)
            /\ RedYellowGreen(last.shown.onc_flags)
            /\ RedYellowGreen(last.shown.all_flags)
            /\ IsPermutation(last.shown.msk_flags, OfContract("MSK-2024-001"))
            /\ IsPermutation(last.shown.onc_flags, OfContract("ONC-2024-001"))
            /\ IsPermutation(last.shown.all_flags, all_flags)

\* The report was given a GREEN, then a YELLOW, then a RED flag of one
\* contract.
C6_ReversedInput ==
    /\ last.op = "generate_html_report"
    /\ Len(last.args.all_flags) = 3
    /\ [i \in 1..3 |-> last.args.all_flags[i].severity]
         = <<"GREEN", "YELLOW", "RED">>
    /\ \A i \in 1..3 : last.args.all_flags[i].contract_id = "ONC-2024-001"

\* The RED pathway_cost_correlation flags of the last call that were built
\* for an episode row: they carry its label, adherence, cost and target.
PathwayFlagsOf(row) ==
    SelectSeq(last.flags, LAMBDA f :
        /\ f.metric_name = "pathway_cost_correlation"
        /\ f.severity = "RED"
        /\ f.episode_type = OncLabel(row)
        /\ f.related_metrics.pathway_adherence = row["pathway_adherence_rate"].v
        /\ f.related_metrics.avg_episode_cost = row["avg_episode_cost"].v
        /\ f.related_metrics.target_price = row["target_price"].v)

\* The row holds an adherence, an average cost and a positive target price.
PathwayRowPresent(row) ==
    /\ notna(row["pathway_adherence_rate"]) /\ notna(row["avg_episode_cost"])
    /\ notna(row["target_price"]) /\ row["target_price"].v > 0

QualityGateFlags ==
    SelectSeq(last.flags, LAMBDA f :
        f.metric_name \in {"quality_gate_proximity", "quality_gate_failure"})

\* The first composite row of the quality table of the last call, as a
\* sequence: empty when there is none.
CompositeRows ==
    SelectSeq(last.args.quality_df.rows, LAMBDA r :
        r["measure_id"].t = "str" /\ r["measure_id"].s \in CompIds)

\* The sum of total_target - total_cost over the episode rows of the last
\* call.
SavingsOfLastCall ==
    SumSeq([i \in 1..Len(last.args.episodes_df.rows) |->
        last.args.episodes_df.rows[i]["total_target"].v
          - last.args.episodes_df.rows[i]["total_cost"].v])

ImprovementFlags ==
    SelectSeq(last.flags, LAMBDA f :
        f.metric_name = "quality_gate_improvement_path")

\* The rows of the quality table of the last call at which a non-composite
\* measure has points to gain: points_earned < max_points.
CandidateIndices ==
    {i \in 1..Len(last.args.quality_df.rows) :
        LET r == last.args.quality_df.rows[i]
        IN  /\ ~(r["measure_id"].t = "str" /\ r["measure_id"].s \in CompIds)
            /\ notna(r["points_earned"]) /\ notna(r["max_points"])
            /\ r["points_earned"].v < r["max_points"].v}

\* The listed candidates are the rows at the indices at: one row each, its
\* name and points as listed.
ListsRows(listed, at) ==
    /\ \A j, k \in 1..Len(listed) : j # k => at[j] # at[k]
    /\ \A j \in 1..Len(listed) :
         LET r == last.args.quality_df.rows[at[j]]
         IN  /\ at[j] \in CandidateIndices
             /\ listed[j].measure = r["measure_name"]
             /\ listed[j].current_points = r["points_earned"].v
             /\ listed[j].max_points = r["max_points"].v
             /\ listed[j].gap = r["max_points"].v - r["points_earned"].v
             /\ listed[j].gap > 0
    /\ \A i \in CandidateIndices \ {at[j] : j \in 1..Len(listed)} :
         \A j \in 1..Len(listed) :
           last.args.quality_df.rows[i]["max_points"].v
             - last.args.quality_df.rows[i]["points_earned"].v >= listed[j].gap

\* C10: with a composite row whose max_points > 0, a call of rule 7 emits the
\* quality_gate_improvement_path flag exactly when the gap is in (0,5], and
\* then once; the flag lists min(3, k) of the k non-composite measures with
\* points_earned < max_points, in ascending order of max_points -
\* points_earned, each a measure of the table with a positive gap, and no
\* measure left out has a smaller gap than a listed one.
C10_ImprovementCandidates ==
    (/\ last.op = "_rule_quality_gate_financial_impact" /\ ~last.raised
     /\ CompositeRows # <<>>
     /\ notna(CompositeRows[1]["points_earned"])
     /\ notna(CompositeRows[1]["max_points"])
     /\ CompositeRows[1]["max_points"].v > 0) =>
        LET max_pts == CompositeRows[1]["max_points"].v
            gap_pts == last.args.contract.quality_gate_minimum * max_pts
                         - 100 * CompositeRows[1]["points_earned"].v
            k       == Cardinality(CandidateIndices)
        IN  IF gap_pts <= 0 \/ gap_pts > 5 * max_pts
            THEN ImprovementFlags = <<>>
            ELSE /\ Len(ImprovementFlags) = 1
                 /\ LET listed ==
                            ImprovementFlags[1].related_metrics.improvement_candidates
                    IN  /\ Len(listed) = IF k < 3 THEN k ELSE 3
                        /\ \A j \in 1..(Len(listed) - 1) :
                             listed[j].gap <= listed[j + 1].gap
                        /\ \E at \in [1..Len(listed) ->
                                         1..Len(last.args.quality_df.rows)] :
                             ListsRows(listed, at)

\* A call listed three of four candidates that arrived with the largest gap
\* first and two equal gaps among them.
C10_ThreeOfFour ==
    /\ last.op = "_rule_quality_gate_financial_impact" /\ ~last.raised
    /\ Len(ImprovementFlags) = 1
    /\ Cardinality(CandidateIndices) = 4
    /\ last.args.quality_df.rows[1]["measure_id"] = Str("ONC-Q-005")
    /\ LET listed == ImprovementFlags[1].related_metrics.improvement_candidates
       IN  /\ Len(listed) = 3
           /\ listed[1].gap < listed[2].gap
           /\ listed[2].gap = listed[3].gap

\* The bounds a range definition gives, under either spelling of the key.
DefinesMin(rd) == "min" \in DOMAIN rd \/ "min_acceptable" \in DOMAIN rd

DefinesMax(rd) == "max" \in DOMAIN rd \/ "max_acceptable" \in DOMAIN rd

DefinesExpected(rd) == "expected" \in DOMAIN rd \/ "target" \in DOMAIN rd

MinOf(rd) == IF "min" \in DOMAIN rd THEN rd["min"] ELSE rd["min_acceptable"]

MaxOf(rd) == IF "max" \in DOMAIN rd THEN rd["max"] ELSE rd["max_acceptable"]

ExpectedOf(rd) == IF "expected" \in DOMAIN rd THEN rd["expected"] ELSE rd["target"]

\* The severities of the flags the last call returned, in order.
SeveritiesOfLast == [i \in 1..Len(last.flags) |-> last.flags[i].severity]

\* The verdict of a bounded range on the number v: RED outside [min, max],
\* otherwise YELLOW when farther than 40% of the width from expected, the
\* width counting only if positiveOnly allows a zero width.
BoundedVerdict(v, rd, positiveOnly) ==
    IF v < MinOf(rd) \/ v > MaxOf(rd) THEN <<"RED">>
    ELSE IF /\ DefinesExpected(rd)
            /\ (positiveOnly => MaxOf(rd) > MinOf(rd))
            /\ 10 * Abs(v - ExpectedOf(rd)) > 4 * (MaxOf(rd) - MinOf(rd))
    THEN <<"YELLOW">>
    ELSE <<>>

\* The verdict of a ceiling-only range: RED above max, otherwise YELLOW above
\* the target.
CeilingVerdict(v, rd) ==
    IF v > MaxOf(rd) THEN <<"RED">>
    ELSE IF "target" \in DOMAIN rd /\ v > rd["target"] THEN <<"YELLOW">>
    ELSE <<>>

RangeVerdictHolds(positiveOnly) ==
    (last.op = "_check_range" /\ IsNum(last.args.value)) =>
        LET v  == last.args.value.v
            rd == last.args.range_def
        IN  /\ Len(last.flags) <= 1
            /\ (DefinesMin(rd) /\ DefinesMax(rd)) =>
                   SeveritiesOfLast = BoundedVerdict(v, rd, positiveOnly)
            /\ (~DefinesMin(rd) /\ DefinesMax(rd)) =>
                   SeveritiesOfLast = CeilingVerdict(v, rd)

\* C11 as stated: _check_range returns at most one flag for a non-missing
\* value; a range with both min and max gives RED iff value < min or
\* value > max, otherwise YELLOW iff |value - expected| > 0.40 x (max - min),
\* otherwise no flag; a ceiling-only range gives RED iff value > max,
\* otherwise YELLOW iff value > target, otherwise no flag.
C11_RangeVerdict == RangeVerdictHolds(FALSE)

\* C11 amended: as stated, the YELLOW of a bounded range requiring besides
\* that the range has positive width (max > min).
C11_RangeVerdictPositiveWidth == RangeVerdictHolds(TRUE)

\* A value inside a bounded range of positive width, farther than 40% of
\* the width from expected, got its one YELLOW flag.
C11_YellowInsideBounds ==
    /\ last.op = "_check_range"
    /\ last.args.range_def = [min |-> 10, max |-> 20, expected |-> 12]
    /\ last.args.value = Num(17)
    /\ SeveritiesOfLast = <<"YELLOW">>

\* The rows of the last validate_ranges call that have no entry in the
\* reference-key map of the contract's specialty, and the label the flags of
\* such a row would carry.
RowLabel(row, specialty) ==
    IF specialty = "MSK" THEN CellStr(get(row, "episode_type", Str("")))
    ELSE OncLabel(row)

RowUnmapped(row, specialty) ==
    IF specialty = "MSK"
    THEN MSK_EP_TYPE_MAP(get(row, "episode_type", Str(""))) = ""
    ELSE ONC_EP_TYPE_MAP(get(row, "cancer_type", Str("")),
                         get(row, "stage_group", Str("")),
                         get(row, "line_of_therapy", Str(""))) = ""

NoFlagOfUnmappedRows(specialties) ==
    (last.op = "validate_ranges" /\ last.args.contract.specialty \in specialties) =>
        LET rows == last.args.episodes_df.rows
            specialty == last.args.contract.specialty
        IN  \A i \in 1..Len(rows) :
              RowUnmapped(rows[i], specialty) =>
                 \A k \in 1..Len(last.flags) :
                    last.flags[k].episode_type # RowLabel(rows[i], specialty)

\* C12: validate_ranges emits no flag of any metric for a row whose episode
\* type (MSK) or (cancer_type, stage_group, line_of_therapy) triple
\* (Oncology) has no entry in the reference-key map, whatever the row's
\* metric values and whatever the configured ranges.
C12_UnmappedRowsSkipped == NoFlagOfUnmappedRows({"MSK", "Oncology"})

\* The oncology half of C12: a row of an unmapped triple gets no flag.
C12_UnmappedOncologyRows == NoFlagOfUnmappedRows({"Oncology"})

\* The cost-range half of C12 for MSK: a row of an unmapped episode type
\* gets no avg_episode_cost flag.
C12_UnmappedMskCost ==
    (last.op = "validate_ranges" /\ last.args.contract.specialty = "MSK") =>
        \A i \in 1..Len(last.args.episodes_df.rows) :
          RowUnmapped(last.args.episodes_df.rows[i], "MSK") =>
             \A k \in 1..Len(last.flags) :
                (last.flags[k].episode_type
                    = RowLabel(last.args.episodes_df.rows[i], "MSK"))
                   => last.flags[k].metric_name # "avg_episode_cost"

\* The rate-scale and rate-range flags of the last validate_schema call for
\* the column col.
RateFlagsOf(col) ==
    SelectSeq(last.flags,
              LAMBDA f : f.metric_name = col
                         /\ f.description \in {"rate_scale_0_100", "rate_out_of_range"})

\* The numbers a column of the last call's table holds.
NumbersOf(col) ==
    LET cells == Column(last.args.df, col)
    IN  {cells[i].v : i \in {j \in 1..Len(cells) : IsNum(cells[j])}}

\* A validate_schema call that returned, on a table holding only numbers and
\* missing values in the rate column col.
RateCase(col) ==
    /\ last.op = "validate_schema"
    /\ ~last.raised
    /\ HasCol(last.args.df, col)
    /\ InSeq(RATE_COLUMNS(last.args.dataset_name), col)
    /\ \A i \in 1..Len(last.args.df.rows) :
          last.args.df.rows[i][col].t \in {"num", "nan"}

RateColumnsOfModel == {"readmission_rate", "pathway_adherence_rate"}

\* The rate flags of col are as the values of col require: none when all lie
\* in [0,1]; else one, YELLOW when all lie in [0,100] and RED otherwise.
RateFlagsAsRequired(col) ==
    LET vals == NumbersOf(col)
        fl   == RateFlagsOf(col)
    IN  IF \A v \in vals : 0 <= v /\ v <= 1000 THEN fl = <<>>
        ELSE /\ Len(fl) = 1
             /\ IF \A v \in vals : 0 <= v /\ v <= 100000
                THEN fl[1].severity = "YELLOW"
                     /\ fl[1].description = "rate_scale_0_100"
                ELSE fl[1].severity = "RED"
                     /\ fl[1].description = "rate_out_of_range"

\* C13: a rate column with a non-missing value outside [0,1] gets exactly one
\* rate flag: YELLOW (percentage scale) if all its non-missing values lie in
\* [0,100], otherwise RED (out of range); a rate column whose non-missing
\* values all lie in [0,1] gets no rate flag.  [10, 45, 92] gives YELLOW.
C13_RateScaleOrRange ==
    \A col \in RateColumnsOfModel : RateCase(col) => RateFlagsAsRequired(col)

\* C13 on the columns that hold no negative value.
C13_NonNegativeRates ==
    \A col \in RateColumnsOfModel :
       (RateCase(col) /\ \A v \in NumbersOf(col) : v >= 0)
          => RateFlagsAsRequired(col)

\* The example of C13: the column [10, 45, 92] got the YELLOW scale flag.
C13_TenFortyFiveNinetyTwo ==
    /\ RateCase("readmission_rate")
    /\ Column(last.args.df, "readmission_rate")
          = <<Num(10000), Num(45000), Num(92000)>>
    /\ Len(RateFlagsOf("readmission_rate")) = 1
    /\ RateFlagsOf("readmission_rate")[1].severity = "YELLOW"

\* C14: a rate column whose non-missing values mix the two scales (some
\* within [0,1], some above 1, such as [0.1, 0.92, 45]) does not get the
\* YELLOW percentage-scale flag.
C14_MixedScalesNotYellow ==
    \A col \in RateColumnsOfModel :
       (/\ RateCase(col)
        /\ \E v \in NumbersOf(col) : 0 <= v /\ v <= 1000
        /\ \E v \in NumbersOf(col) : v > 1000)
       => \A k \in 1..Len(last.flags) :
             last.flags[k].metric_name = col
                => last.flags[k].description # "rate_scale_0_100"

\* The designated numeric columns of the last validate_schema call that are
\* present and whose non-missing values are not numeric.
NonNumericColumns ==
    LET numeric_cols == NUMERIC_COLUMNS(last.args.dataset_name)
    IN  {numeric_cols[i] : i \in
            {j \in 1..Len(numeric_cols) :
                /\ HasCol(last.args.df, numeric_cols[j])
                /\ \E k \in 1..Len(last.args.df.rows) :
                      last.args.df.rows[k][numeric_cols[j]].t = "str"}}

HasTypeMismatchFlag(col) ==
    \E k \in 1..Len(last.flags) :
       /\ last.flags[k].severity = "RED"
       /\ last.flags[k].metric_name = col
       /\ last.flags[k].description = "not_numeric"

\* C15: for every designated numeric column that is present and whose
\* non-missing values are not numeric, validate_schema returns normally and
\* its result holds a RED type-mismatch flag for that column, also when the
\* column is episode_count, a cost column or a rate column.
C15_TypeMismatchReported ==
    last.op = "validate_schema" =>
        \A col \in NonNumericColumns : ~last.raised /\ HasTypeMismatchFlag(col)

\* C15 for the calls that return.
C15_ReturnedCalls ==
    (last.op = "validate_schema" /\ ~last.raised) =>
        \A col \in NonNumericColumns : HasTypeMismatchFlag(col)

\* A call on a table with text in a numeric column that no later check
\* compares with a number returned, the type mismatch among its flags.
C15_TextInLengthOfStay ==
    /\ last.op = "validate_schema"
    /\ ~last.raised
    /\ "avg_los_days" \in NonNumericColumns
    /\ HasTypeMismatchFlag("avg_los_days")

\* Every call on a table with text in episode_count, in a cost column or in
\* a rate column is left by an exception.
C15_ComparedColumnsRaise ==
    last.op = "validate_schema" =>
        \A col \in NonNumericColumns :
           (col = "episode_count" \/ CostInName(col)
            \/ InSeq(RATE_COLUMNS(last.args.dataset_name), col)) => last.raised

\* The quality_points_sum flags of the last call.
PointsSumFlags ==
    SelectSeq(last.flags, LAMBDA f : f.metric_name = "quality_points_sum")

\* The first composite row of the last call's quality table, as a sequence,
\* and the sum of a points column over the other rows.
FirstComposite ==
    LET comp == SelectSeq(last.args.quality_df.rows, LAMBDA r : IsComp(r["measure_id"]))
    IN  IF comp = <<>> THEN <<>> ELSE <<comp[1]>>

ComponentSum(col) ==
    LET rows == SelectSeq(last.args.quality_df.rows, LAMBDA r : ~IsComp(r["measure_id"]))
    IN  SumSeq([i \in 1..Len(rows) |-> IF IsNum(rows[i][col]) THEN rows[i][col].v ELSE 0])

\* The composite row reports a number for col that is not the sum of col.
PointsDiffer(col) ==
    /\ IsNum(FirstComposite[1][col])
    /\ FirstComposite[1][col].v # ComponentSum(col)

PointsSumFlagIff(cols) ==
    (last.op = "validate_arithmetic" /\ ~last.raised) =>
        IF FirstComposite = <<>> THEN PointsSumFlags = <<>>
        ELSE /\ Len(PointsSumFlags) <= 1
             /\ \A k \in 1..Len(PointsSumFlags) : PointsSumFlags[k].severity = "YELLOW"
             /\ (PointsSumFlags # <<>>) <=> (\E col \in cols : PointsDiffer(col))

\* C16: with a composite (COMP) row in the quality table, validate_arithmetic
\* emits a YELLOW quality_points_sum flag if and only if the row's
\* points_earned or its max_points differs from the sum of points_earned,
\* respectively max_points, over the non-composite measures; without a COMP
\* row there is no such flag.
C16_CompositePointsSum == PointsSumFlagIff({"points_earned", "max_points"})

\* What the code decides by: points_earned alone.
C16_EarnedPointsOnly == PointsSumFlagIff({"points_earned"})

\* The discharge_disposition_sum flags of the last call that carry the label
\* and the sum of the row.
DispositionSum(row) == SumSeq([i \in 1..4 |-> row[disp_cols[i]].v])

DispositionFlagsOf(row) ==
    {k \in 1..Len(last.flags) :
        /\ last.flags[k].metric_name = "discharge_disposition_sum"
        /\ last.flags[k].episode_type = CellStr(row["episode_type"])
        /\ last.flags[k].metric_value = <<DispositionSum(row)>>}

\* The rows of the last call's table whose four percentages are all there.
CompleteDispositionRows ==
    {i \in 1..Len(last.args.df.rows) :
        \A c \in 1..4 : IsNum(last.args.df.rows[i][disp_cols[c]])}

DispositionCase ==
    /\ last.op = "validate_schema"
    /\ ~last.raised
    /\ last.args.dataset_name = "msk_episodes"
    /\ \A c \in 1..4 : HasCol(last.args.df, disp_cols[c])

EolQuality == last.args.quality_df.rows

MeasureFailsIn(row) ==
    /\ IsNum(row["rate"]) /\ IsNum(row["target"])
    /\ \/ /\ row["measure_id"] \in {Str("ONC-Q-002"), Str("ONC-Q-005"), Str("ONC-Q-006")}
          /\ row["rate"].v > row["target"].v
       \/ /\ row["measure_id"] \in {Str("ONC-Q-003"), Str("ONC-Q-004")}
          /\ row["rate"].v < row["target"].v

FailingEolMeasures ==
    {EolQuality[i]["measure_id"].s :
        i \in {j \in 1..Len(EolQuality) : MeasureFailsIn(EolQuality[j])}}

\* No measure has two rows in the table.
OneRowPerMeasure ==
    \A i, j \in 1..Len(EolQuality) :
       EolQuality[i]["measure_id"] = EolQuality[j]["measure_id"] => i = j

\* The Advance-Care-Planning rate is reported and below 0.50.
AcpBelowHalf ==
    \E i \in 1..Len(EolQuality) :
       /\ EolQuality[i]["measure_id"] = Str("ONC-Q-009")
       /\ IsNum(EolQuality[i]["rate"])
       /\ EolQuality[i]["rate"].v < 500

EolSystemicFlags ==
    SelectSeq(last.flags, LAMBDA f : f.metric_name = "eol_systemic_failure")

SiteOfServiceFlags ==
    SelectSeq(last.flags, LAMBDA f : f.metric_name = "site_of_service_cost")

\* The drug is flagged biosimilar: a true boolean or the text 'True' in any
\* case of letters.
FlaggedBiosimilar(cell) ==
    cell = Bool(TRUE) \/ cell \in {Str("True"), Str("true"), Str("TRUE")}

\* The drug rows in scope of the check: more than $2000 a claim, more than
\* 60% in hospital outpatient departments, not flagged biosimilar.
InSiteOfServiceScope(drug) ==
    /\ IsNum(drug["avg_cost_per_claim"]) /\ drug["avg_cost_per_claim"].v > 2000
    /\ IsNum(drug["site_of_service_hopd_pct"])
    /\ drug["site_of_service_hopd_pct"].v > 600
    /\ ~FlaggedBiosimilar(drug["is_biosimilar"])

\* The reported excess is (hopd_pct - 0.40) x total_claims x avg_cost x 0.30
\* to the nearest dollar.
ExcessAsStated(flag, drug) ==
    IsNum(drug["total_claims"]) =>
        /\ IsNum(flag.related_metrics.est_savings)
        /\ Abs(10000 * flag.related_metrics.est_savings.v
               - (drug["site_of_service_hopd_pct"].v - 400) * drug["total_claims"].v
                   * drug["avg_cost_per_claim"].v * 3) <= 5000

SiteOfServiceAsStated(markers) ==
    (last.op = "validate_cross_metrics" /\ ~last.raised
     /\ last.args.onc_drugs_df # NoDf
     /\ \A i \in 1..Len(last.args.onc_drugs_df.rows) :
           last.args.onc_drugs_df.rows[i]["is_biosimilar"] \in markers) =>
        LET in_scope == SelectSeq(last.args.onc_drugs_df.rows, InSiteOfServiceScope)
        IN  /\ Len(SiteOfServiceFlags) = Len(in_scope)
            /\ \A k \in 1..Len(in_scope) :
                 /\ SiteOfServiceFlags[k].severity = "YELLOW"
                 /\ SiteOfServiceFlags[k].related_metrics.drug_name
                       = in_scope[k]["drug_name"]
                 /\ ExcessAsStated(SiteOfServiceFlags[k], in_scope[k])

\* C20: for each drug-detail row, _check_onc_cross_metrics emits a YELLOW
\* site_of_service_cost flag if and only if avg_cost_per_claim > 2000,
\* site_of_service_hopd_pct > 0.60 and the drug is not flagged biosimilar,
\* whether the marker is a boolean or the text 'True'/'False'; the excess
\* facility cost it reports is (hopd_pct - 0.40) x total_claims x
\* avg_cost_per_claim x 0.30.
C20_SiteOfServiceCost ==
    SiteOfServiceAsStated({Bool(TRUE), Bool(FALSE), Str("True"), Str("False"),
                           Str("true")})

\* C20 on tables whose marker is a boolean or a text that reads true.
C20_BooleanOrTrueText ==
    SiteOfServiceAsStated({Bool(TRUE), Bool(FALSE), Str("True"), Str("true")})

\* A drug in scope with a boolean marker got its flag, the excess 50 claims
\* x (0.70 - 0.40) x $3000 x 0.30 = $13,500.
C20_ExcessOfThirteenThousand ==
    /\ last.op = "validate_cross_metrics"
    /\ Len(SiteOfServiceFlags) = 1
    /\ SiteOfServiceFlags[1].related_metrics.total_claims = Num(50)
    /\ SiteOfServiceFlags[1].related_metrics.hopd_pct = 700
    /\ SiteOfServiceFlags[1].related_metrics.avg_cost_per_claim = 3000
    /\ SiteOfServiceFlags[1].related_metrics.est_savings = Num(13500)

\* The site_of_service_opportunity flags of the last call.
SiteOpportunityFlags ==
    SelectSeq(last.flags, LAMBDA f : f.metric_name = "site_of_service_opportunity")

\* The estimate (hopd_pct - 0.40) x total_claims x avg_cost_per_claim x 0.50
\* is at least 5000.
EstimateMaterial(drug) ==
    /\ IsNum(drug["total_claims"])
    /\ (drug["site_of_service_hopd_pct"].v - 400) * drug["total_claims"].v
         * drug["avg_cost_per_claim"].v >= 5000 * 2000

\* The conditions of rule 3 without the biosimilar marker.
CostlyAtHopd(drug) ==
    /\ IsNum(drug["avg_cost_per_claim"]) /\ drug["avg_cost_per_claim"].v > 2000
    /\ IsNum(drug["site_of_service_hopd_pct"])
    /\ drug["site_of_service_hopd_pct"].v > 600

\* The rule flagged, in order and in YELLOW, the rows that are costly at HOPD
\* (and, withMarker, not flagged biosimilar) and have a material estimate, and
\* no other row.
SiteOpportunityOf(withMarker) ==
    (last.op = "_rule_site_of_service_savings" /\ ~last.raised) =>
        LET flagged == SelectSeq(last.args.drugs_df.rows,
                           LAMBDA d : /\ IF withMarker THEN InSiteOfServiceScope(d)
                                         ELSE CostlyAtHopd(d)
                                      /\ EstimateMaterial(d))
        IN  /\ Len(SiteOpportunityFlags) = Len(flagged)
            /\ \A k \in 1..Len(flagged) :
                 /\ SiteOpportunityFlags[k].severity = "YELLOW"
                 /\ SiteOpportunityFlags[k].related_metrics.drug_name
                       = flagged[k]["drug_name"]
                 /\ SiteOpportunityFlags[k].related_metrics.total_claims
                       = flagged[k]["total_claims"]

\* C21: _rule_site_of_service_savings emits a YELLOW
\* site_of_service_opportunity flag for a drug if and only if
\* avg_cost_per_claim > 2000, the HOPD share > 0.60, the drug is not flagged
\* biosimilar, and the estimate (hopd_pct - 0.40) x total_claims x
\* avg_cost_per_claim x 0.50 is at least 5000.
C21_SiteOfServiceSavings == SiteOpportunityOf(TRUE)

\* C21 without the condition on the biosimilar marker.
C21_WhateverTheMarker == SiteOpportunityOf(FALSE)

\* A biosimilar of $3000 a claim, 70% at HOPD, 50 claims, was flagged.
C21_BiosimilarFlagged ==
    /\ last.op = "_rule_site_of_service_savings"
    /\ Len(last.args.drugs_df.rows) = 1
    /\ last.args.drugs_df.rows[1]["is_biosimilar"] = Bool(TRUE)
    /\ Len(SiteOpportunityFlags) = 1

\* The drug names the pairs of BIOSIMILAR_PAIRS are configured with.
ConfiguredPairs ==
    {[brand |-> "Trastuzumab (Herceptin)", bio |-> "Trastuzumab-dkst"],
     [brand |-> "Bevacizumab (Avastin)", bio |-> "Bevacizumab-awwb"],
     [brand |-> "Pegfilgrastim (Neulasta)", bio |-> "Pegfilgrastim-jmdb"]}

\* The rows of the drug named name in the table of the last call.
RowsNamed(name) ==
    SelectSeq(last.args.drugs_df.rows, LAMBDA r : r["drug_name"] = Str(name))

\* The flags of the last call for the pair.
PairFlags(pair) ==
    SelectSeq(last.flags,
              LAMBDA f : /\ f.metric_name = "biosimilar_savings_opportunity"
                         /\ f.related_metrics.biosimilar_drug = Str(pair.bio))

\* The statement of C22 for one pair whose rows are both present, on the
\* first row of each drug.
PairAsStated(pair) ==
    LET brand == RowsNamed(pair.brand)[1]
        bio   == RowsNamed(pair.bio)[1]
        brand_claims == brand["total_claims"]
        bio_claims   == bio["total_claims"]
    IN  (IsNum(brand_claims) /\ IsNum(bio_claims)
         /\ brand_claims.v + bio_claims.v > 0) =>
            LET total == brand_claims.v + bio_claims.v
                fl    == PairFlags(pair)
            IN  /\ Len(fl) = (IF 2 * brand_claims.v > total THEN 1 ELSE 0)
                /\ \A k \in 1..Len(fl) :
                     /\ fl[k].severity =
                           (IF 5 * brand_claims.v > 4 * total THEN "RED"
                            ELSE "YELLOW")
                     /\ fl[k].related_metrics.potential_savings =
                           brand_claims.v * (brand["avg_cost_per_claim"].v
                                             - bio["avg_cost_per_claim"].v)

\* Every row of a biosimilar of a configured pair in the table carries a
\* marker that reads true.
BiosimilarsMarked ==
    \A pair \in ConfiguredPairs : \A i \in 1..Len(RowsNamed(pair.bio)) :
        FlaggedBiosimilar(RowsNamed(pair.bio)[i]["is_biosimilar"])

BiosimilarSavingsAsStated ==
    /\ \A pair \in ConfiguredPairs :
         /\ Len(PairFlags(pair)) <= 1
         /\ (Len(RowsNamed(pair.brand)) > 0 /\ Len(RowsNamed(pair.bio)) > 0)
               => PairAsStated(pair)
    /\ \A k \in 1..Len(last.flags) :
         \E pair \in ConfiguredPairs : InSeq(PairFlags(pair), last.flags[k])

\* C22: for each configured brand/biosimilar pair whose rows are both present
\* with combined claims > 0, _rule_biosimilar_savings emits one flag if and
\* only if the brand's share of the claims is > 0.50, RED if and only if the
\* share is > 0.80 and YELLOW otherwise, with potential_savings = brand_claims
\* x (brand_cost_per_claim - biosimilar_cost_per_claim); at most one flag per
\* pair.
C22_BiosimilarSavings ==
    (last.op = "_rule_biosimilar_savings" /\ ~last.raised) =>
        BiosimilarSavingsAsStated

\* C22 on tables whose biosimilar rows carry a marker that reads true.
C22_MarkedBiosimilars ==
    (last.op = "_rule_biosimilar_savings" /\ ~last.raised /\ BiosimilarsMarked) =>
        BiosimilarSavingsAsStated

\* A brand share of 0.81 is RED with savings 81 x (3000 - 2500), and the
\* bevacizumab pair of the same table has its own flag.
C22_RedAndSecondPair ==
    /\ last.op = "_rule_biosimilar_savings"
    /\ BiosimilarsMarked
    /\ Len(last.flags) = 2
    /\ last.flags[1].severity = "RED"
    /\ last.flags[1].related_metrics.potential_savings = 40500
    /\ last.flags[2].related_metrics.brand_drug = Str("Bevacizumab (Avastin)")

\* The novel_therapy_carveout flags of the last call.
NovelFlags ==
    SelectSeq(last.flags, LAMBDA f : f.metric_name = "novel_therapy_carveout")

\* The settings of the contract of the last call, with their defaults.
CarveoutSet ==
    "novel_therapy_carveout" \in DOMAIN last.args.contract
    /\ last.args.contract.novel_therapy_carveout

LookbackOfLast ==
    IF "novel_therapy_lookback_months" \in DOMAIN last.args.contract
    THEN last.args.contract.novel_therapy_lookback_months ELSE 18

AsOfLast ==
    IF "data_as_of" \in DOMAIN last.args.contract
    THEN last.args.contract.data_as_of ELSE Date(2025, 1, 15)

\* The drug was approved within the lookback window counted back from the
\* as-of date: not before the cutoff and not after the as-of date.
ApprovedInWindow(drug) ==
    /\ IsDate(drug["fda_approval_date"])
    /\ DateGE(drug["fda_approval_date"], MonthsBack(AsOfLast, LookbackOfLast))
    /\ DateGE(AsOfLast, drug["fda_approval_date"])

\* The drug is marked a novel therapy and was approved on or after the cutoff.
MarkedAndSinceCutoff(drug) ==
    /\ drug["is_novel_therapy"] \in {Bool(TRUE), Str("True")}
    /\ IsDate(drug["fda_approval_date"])
    /\ DateGE(drug["fda_approval_date"], MonthsBack(AsOfLast, LookbackOfLast))

\* The rule's result when the drugs it counts are those of counted.
NovelTherapyOf(counted) ==
    LET costs == [i \in 1..Len(counted) |-> counted[i]["total_cost"].v]
    IN  IF ~CarveoutSet THEN Len(last.flags) = 0
        ELSE /\ Len(last.flags) = Len(NovelFlags)
             /\ Len(NovelFlags) = (IF Len(counted) > 0 THEN 1 ELSE 0)
             /\ \A k \in 1..Len(NovelFlags) :
                  LET rm == NovelFlags[k].related_metrics
                  IN  /\ NovelFlags[k].severity = "YELLOW"
                      /\ rm.novel_total_cost = SumSeq(costs)
                      /\ rm.savings_after_carveout - rm.savings_before_carveout
                            = rm.novel_total_cost
                      /\ Abs(1000 * rm.provider_share_impact
                             - rm.novel_total_cost
                                 * last.args.contract.sharing_rate_savings)
                            <= 500

\* C23: _rule_novel_therapy_impact emits no flag unless the contract sets
\* novel_therapy_carveout; when it is set, the rule emits exactly one YELLOW
\* novel_therapy_carveout flag if and only if at least one drug was
\* FDA-approved within the lookback window (default 18 months) counted back
\* from data_as_of; novel_total_cost is the sum of total_cost over exactly
\* those drugs, savings_after - savings_before = novel_total_cost, and the
\* provider-share impact is novel_total_cost x sharing_rate_savings.
C23_NovelTherapyImpact ==
    (last.op = "_rule_novel_therapy_impact" /\ ~last.raised) =>
        NovelTherapyOf(SelectSeq(last.args.drugs_df.rows, ApprovedInWindow))

\* C23 with the drugs counted being those marked is_novel_therapy and
\* approved on or after the cutoff date.
C23_MarkedSinceCutoff ==
    (last.op = "_rule_novel_therapy_impact" /\ ~last.raised) =>
        NovelTherapyOf(SelectSeq(last.args.drugs_df.rows, MarkedAndSinceCutoff))

\* A marked drug approved on 2025-06-01, after the as-of date 2025-01-15,
\* was counted.
C23_ApprovedAfterAsOf ==
    /\ last.op = "_rule_novel_therapy_impact"
    /\ Len(last.args.drugs_df.rows) = 1
    /\ last.args.drugs_df.rows[1]["fda_approval_date"] = Date(2025, 6, 1)
    /\ AsOfLast = Date(2025, 1, 15)
    /\ Len(NovelFlags) = 1
    /\ NovelFlags[1].related_metrics.novel_total_cost = 300000

\* Two drugs counted on the cutoff day of the month-end as-of date: the sum
\* of their costs, and half of it as the provider's share.
C23_TwoDrugsOnCutoff ==
    /\ last.op = "_rule_novel_therapy_impact"
    /\ AsOfLast = Date(2024, 8, 31)
    /\ Len(last.args.drugs_df.rows) = 2
    /\ last.args.drugs_df.rows[1]["fda_approval_date"] = Date(2023, 2, 28)
    /\ Len(NovelFlags) = 1
    /\ NovelFlags[1].related_metrics.novel_total_cost = 340000
    /\ NovelFlags[1].related_metrics.savings_before_carveout = 20000
    /\ NovelFlags[1].related_metrics.savings_after_carveout = 360000
    /\ NovelFlags[1].related_metrics.provider_share_impact = 170000

\* The episode_volume_vs_incidence flags of the last call for a cancer type.
VolumeFlags(cancer) ==
    SelectSeq(last.flags,
              LAMBDA f : /\ f.metric_name = "episode_volume_vs_incidence"
                         /\ f.related_metrics.cancer_type = Str(cancer))

\* The rows of the cancer type whose episode_count is a number.
CountedRows(cancer) ==
    SelectSeq(last.args.episodes_df.rows,
              LAMBDA r : r["cancer_type"] = Str(cancer) /\ IsNum(r["episode_count"]))

\* The sum of episode_count over the rows of the cancer type.
VolumeOf(cancer) ==
    SumSeq([i \in 1..Len(CountedRows(cancer)) |->
               CountedRows(cancer)[i]["episode_count"].v])

MembersOfLast ==
    IF "attributed_members" \in DOMAIN last.args.contract
    THEN last.args.contract.attributed_members ELSE 0

\* The cancer type has a configured incidence triple.
HasTriple(cancer) ==
    LET rates == last.args.reference_ranges.incidence_rates_ma_per_1000
        key   == CANCER_TYPE_MAP(Str(cancer))
    IN  /\ key \in DOMAIN rates
        /\ {"min", "max", "expected"} \subseteq DOMAIN rates[key]

\* The severities C24 requires for a cancer type with a triple, counted rows
\* and attributed_members > 0: the rate is VolumeOf / (members / 1000), the
\* triple is in thousandths.
VolumeVerdict(cancer) ==
    LET ref == last.args.reference_ranges
                   .incidence_rates_ma_per_1000[CANCER_TYPE_MAP(Str(cancer))]
    IN  IF VolumeOf(cancer) * 1000000 > 2 * ref.max * MembersOfLast THEN <<"RED">>
        ELSE IF VolumeOf(cancer) * 2000000 < ref.min * MembersOfLast
        THEN <<"YELLOW">>
        ELSE <<>>

\* The statement of C24 over the cancer types with a triple; counted tells
\* whether only the types with a row that holds an episode_count are meant.
VolumeAsStated(counted) ==
    (last.op = "_rule_volume_vs_incidence" /\ ~last.raised) =>
        /\ \A cancer \in {"Breast", "Lung", "Melanoma"} :
             /\ Len(VolumeFlags(cancer)) <= 1
             /\ (HasTriple(cancer) /\ MembersOfLast > 0
                 /\ (counted => Len(CountedRows(cancer)) > 0)) =>
                    [k \in 1..Len(VolumeFlags(cancer)) |->
                        VolumeFlags(cancer)[k].severity] = VolumeVerdict(cancer)
        /\ \A k \in 1..Len(last.flags) :
             \E cancer \in {"Breast", "Lung"} :
                InSeq(VolumeFlags(cancer), last.flags[k])

C24_YellowAndRed ==
    /\ last.op = "_rule_volume_vs_incidence"
    /\ VolumeOf("Lung") = 1 /\ VolumeOf("Breast") = 33
    /\ Len(VolumeFlags("Lung")) = 1 /\ VolumeFlags("Lung")[1].severity = "YELLOW"
    /\ Len(VolumeFlags("Breast")) = 1 /\ VolumeFlags("Breast")[1].severity = "RED"

\* After both calls: the volume flags of validate_cross_metrics for Knee
\* Arthroscopy and the arthroscopy flags of validate_msk_rules.
CrossVolumeFlags ==
    SelectSeq(emitted, LAMBDA f : /\ IdPrefix(f) = "CROSS"
                                  /\ f.metric_name = "volume_per_1000"
                                  /\ f.episode_type = "Knee Arthroscopy")

RuleVolumeFlags ==
    SelectSeq(last.flags, LAMBDA f : f.metric_name = "arthroscopy_volume")

\* Two flags report the same rate, episode_count / (attributed_members / 1000).
SameRate(f, g) ==
    f.related_metrics.episode_count * g.related_metrics.attributed_members
        = g.related_metrics.episode_count * f.related_metrics.attributed_members

KneeArthroscopyRows == RowsOfType(last.args.episodes_df, "Knee Arthroscopy")

\* Some Knee Arthroscopy row has episode_count / (attributed_members / 1000)
\* above 25.
ArthroscopyAbove25 ==
    /\ MembersOfLast > 0
    /\ \E i \in 1..Len(KneeArthroscopyRows) :
         /\ IsNum(KneeArthroscopyRows[i]["episode_count"])
         /\ KneeArthroscopyRows[i]["episode_count"].v * 1000 > 25 * MembersOfLast

ArthroscopyDuplicated ==
    /\ (Len(CrossVolumeFlags) > 0) <=> (Len(RuleVolumeFlags) > 0)
    /\ (Len(RuleVolumeFlags) > 0) <=> ArthroscopyAbove25
    /\ \A i \in 1..Len(CrossVolumeFlags) : \A j \in 1..Len(RuleVolumeFlags) :
         /\ CrossVolumeFlags[i].severity = "RED"
         /\ RuleVolumeFlags[j].severity = "RED"
         /\ SameRate(CrossVolumeFlags[i], RuleVolumeFlags[j])

\* C25: for every MSK episodes dataset and contract, validate_cross_metrics
\* emits a RED volume_per_1000 flag for Knee Arthroscopy if and only if
\* validate_msk_rules emits a RED arthroscopy_volume flag, both triggered by
\* episode_count / (attributed_members / 1000) > 25 and both reporting the
\* same rate.
C25_ArthroscopyDuplicate ==
    last.op = "validate_msk_rules" => ArthroscopyDuplicated

\* C25 on tables with one Knee Arthroscopy row at most, when
\* validate_msk_rules returned.
C25_OneRowAndReturned ==
    (last.op = "validate_msk_rules" /\ ~last.raised
     /\ Len(KneeArthroscopyRows) <= 1) => ArthroscopyDuplicated

\* 101 episodes among 4000 members, 25.25 per 1000: one flag of each checker.
C25_BothFlagged ==
    /\ last.op = "validate_msk_rules"
    /\ Len(KneeArthroscopyRows) = 1
    /\ KneeArthroscopyRows[1]["episode_count"] = Num(101)
    /\ Len(CrossVolumeFlags) = 1 /\ Len(RuleVolumeFlags) = 1

\* A first Knee Arthroscopy row of 50 episodes and a second of 120: the
\* cross-metric check flagged the second, the MSK rule looked at the first.
C25_SecondRowAbove ==
    /\ last.op = "validate_msk_rules" /\ ~last.raised
    /\ Len(KneeArthroscopyRows) = 2
    /\ KneeArthroscopyRows[1]["episode_count"] = Num(50)
    /\ KneeArthroscopyRows[2]["episode_count"] = Num(120)
    /\ Len(CrossVolumeFlags) = 1 /\ Len(RuleVolumeFlags) = 0

\* validate_msk_rules raised on the PROM rule and returned nothing, the
\* cross-metric flag of the same data stands alone.
C25_RulesRaised ==
    /\ last.op = "validate_msk_rules" /\ last.raised
    /\ Len(KneeArthroscopyRows) = 1
    /\ Len(CrossVolumeFlags) = 1 /\ Len(RuleVolumeFlags) = 0

\* After both calls: the quality_gate_proximity flags of the cross-metric
\* check and the quality_gate_improvement_path flags of rule 7.
ProximityFlags ==
    SelectSeq(emitted, LAMBDA f : /\ IdPrefix(f) = "CROSS"
                                  /\ f.metric_name = "quality_gate_proximity")

\* max(0, sum(total_target - total_cost)) x sharing_rate_savings over the
\* rows that hold both, times 1000.
AtRiskOfLast ==
    LET rows == last.args.episodes_df.rows
        total == SumSeq([i \in 1..Len(rows) |->
                    IF IsNum(rows[i]["total_target"]) /\ IsNum(rows[i]["total_cost"])
                    THEN rows[i]["total_target"].v - rows[i]["total_cost"].v
                    ELSE 0])
        rate == IF "sharing_rate_savings" \in DOMAIN last.args.contract
                THEN last.args.contract.sharing_rate_savings ELSE 0
    IN  (IF total > 0 THEN total ELSE 0) * rate

GateFlagsAgree ==
    /\ Len(ProximityFlags) = Len(ImprovementFlags)
    /\ Len(ImprovementFlags) <= 1
    /\ \A k \in 1..Len(ImprovementFlags) :
         /\ ImprovementFlags[k].related_metrics.savings_at_risk
               = ProximityFlags[k].related_metrics.estimated_savings_at_risk
         /\ 2 * Abs(1000 * ImprovementFlags[k].related_metrics.savings_at_risk
                    - AtRiskOfLast) <= 1000

\* C26: for every oncology quality dataset, episodes dataset and contract,
\* _rule_quality_gate_financial_impact emits its
\* quality_gate_improvement_path flag if and only if _check_onc_cross_metrics
\* emits the quality_gate_proximity flag, and the two flags report the same
\* at-risk dollar figure, max(0, sum(total_target - total_cost)) x
\* sharing_rate_savings.
C26_GateFlagsAgree ==
    last.op = "_rule_quality_gate_financial_impact" => GateFlagsAgree

\* The cross-metric check of the same data returned: every pathway row before
\* the gate check has a target price other than 0 or is out of its scope.
CrossCheckReturned ==
    ~_check_onc_cross_metrics(last.args.episodes_df, last.args.quality_df,
                              last.args.contract, NoDf).ex

\* C26 when the cross-metric check returned and the composite's maximum is
\* not negative.
C26_ReturnedAndMaxNotNegative ==
    (last.op = "_rule_quality_gate_financial_impact" /\ CrossCheckReturned
     /\ \A k \in 1..Len(CompositeRows) :
           IsNum(CompositeRows[k]["max_points"])
              => CompositeRows[k]["max_points"].v >= 0) => GateFlagsAgree

\* 83 of 100 points against the gate of 85 and savings of $20,001: both
\* flags, each with $10,000 at risk.
C26_BothNearMiss ==
    /\ last.op = "_rule_quality_gate_financial_impact"
    /\ Len(ProximityFlags) = 1 /\ Len(ImprovementFlags) = 1
    /\ ProximityFlags[1].related_metrics.estimated_savings_at_risk = 10000
    /\ ImprovementFlags[1].related_metrics.savings_at_risk = 10000

\* The cross-metric check raised on a row with a target price of 0: rule 7
\* flagged the near miss, the cross-metric check returned nothing.
C26_CrossCheckRaised ==
    /\ last.op = "_rule_quality_gate_financial_impact"
    /\ ~CrossCheckReturned
    /\ Len(ProximityFlags) = 0 /\ Len(ImprovementFlags) = 1

\* A composite of -83 of -100 points: rule 7 flagged it, the cross-metric
\* check, which returned, did not.
C26_NegativeMaximum ==
    /\ last.op = "_rule_quality_gate_financial_impact"
    /\ CrossCheckReturned
    /\ Len(ProximityFlags) = 0 /\ Len(ImprovementFlags) = 1

\* After both calls: the pathway_cost_correlation flags of the cross-metric
\* check for the row.
CrossPathwayFlagsOf(row) ==
    SelectSeq(emitted, LAMBDA f :
        /\ IdPrefix(f) = "CROSS"
        /\ f.metric_name = "pathway_cost_correlation"
        /\ f.episode_type = OncLabel(row)
        /\ f.related_metrics.pathway_adherence = row["pathway_adherence_rate"].v
        /\ f.related_metrics.avg_episode_cost = row["avg_episode_cost"].v
        /\ f.related_metrics.target_price = row["target_price"].v)

PathwayTargetOfLast ==
    IF "pathway_adherence_target" \in DOMAIN last.args.contract
    THEN last.args.contract.pathway_adherence_target ELSE 800

\* Whenever the cross-metric check flagged a row, rule 1 flagged it too, with
\* the same estimated non-pathway cost.
RuleCoversCrossCheck ==
    \A i \in 1..Len(last.args.episodes_df.rows) :
        LET row == last.args.episodes_df.rows[i]
        IN  CrossPathwayFlagsOf(row) # <<>> =>
              /\ PathwayFlagsOf(row) # <<>>
              /\ \A j \in 1..Len(CrossPathwayFlagsOf(row)) :
                 \A k \in 1..Len(PathwayFlagsOf(row)) :
                    /\ PathwayFlagsOf(row)[k].related_metrics.non_pathway_cost_est
                        = CrossPathwayFlagsOf(row)[j].related_metrics.non_pathway_cost_est
                    /\ PathwayFlagsOf(row)[k].related_metrics.est_non_pathway_cost
                        = CrossPathwayFlagsOf(row)[j].related_metrics.est_non_pathway_cost

\* C27: for every oncology episode row and every contract whose
\* pathway_adherence_target is at least 0.75 (the default 0.80 included),
\* whenever _check_onc_cross_metrics emits pathway_cost_correlation for the
\* row, _rule_pathway_adherence_cost also emits its pathway_cost_correlation
\* flag for that row, with the same estimated non-pathway cost.
C27_RuleCoversCrossCheck ==
    (last.op = "_rule_pathway_adherence_cost" /\ PathwayTargetOfLast >= 750) =>
        RuleCoversCrossCheck

\* C27 for the calls of rule 1 that return.
C27_WhenRuleReturns ==
    (last.op = "_rule_pathway_adherence_cost" /\ PathwayTargetOfLast >= 750
     /\ ~last.raised) => RuleCoversCrossCheck

\* With a target of 0.70 the rule passes over a row of adherence 0.70 that the
\* cross-metric check flags.
C27_TargetBelowThreshold ==
    /\ last.op = "_rule_pathway_adherence_cost" /\ ~last.raised
    /\ PathwayTargetOfLast = 700
    /\ ~RuleCoversCrossCheck

\* Adherence 0.70, cost 120000 against 100000: both flags, each with the
\* estimate 166,667.
C27_BothFlagged ==
    /\ last.op = "_rule_pathway_adherence_cost" /\ ~last.raised
    /\ PathwayTargetOfLast = 800
    /\ Len(last.args.episodes_df.rows) = 1
    /\ Len(CrossPathwayFlagsOf(last.args.episodes_df.rows[1])) = 1
    /\ Len(last.flags) = 1
    /\ last.flags[1].related_metrics.est_non_pathway_cost = 166667

\* The row's episode count is missing: the cross-metric check flagged it,
\* rule 1 raised.
C27_RuleRaised ==
    /\ last.op = "_rule_pathway_adherence_cost" /\ last.raised
    /\ Len(last.args.episodes_df.rows) = 1
    /\ last.args.episodes_df.rows[1]["episode_count"] = NaN
    /\ Len(CrossPathwayFlagsOf(last.args.episodes_df.rows[1])) = 1

\* The category that goes with a flag_id prefix.
CategoryOfPrefix(prefix) ==
    CASE prefix = "SCHEMA" -> "schema"
      [] prefix = "ARITH"  -> "arithmetic"
      [] prefix = "RANGE"  -> "range"
      [] prefix = "CROSS"  -> "cross_metric"
      [] prefix \in {"MSK", "ONC"} -> "specialty"

WellFormedFlag(f) ==
    /\ f.severity \in {"RED", "YELLOW", "GREEN"}
    /\ IdPrefix(f) \in {"SCHEMA", "ARITH", "RANGE", "CROSS", "MSK", "ONC"}
    /\ f.category = CategoryOfPrefix(IdPrefix(f))

\* C28: every flag returned by a checker carries the contract_id of the
\* contract passed to that call, a severity among RED, YELLOW and GREEN, and
\* the category fixed by its flag_id prefix; a GREEN flag is the schema pass
\* flag, the only flag of a validate_schema call that found nothing.
C28_FlagContractSeverityCategory ==
    /\ \A i \in 1..Len(emitted) :
          /\ WellFormedFlag(emitted[i])
          /\ emitted[i].severity = "GREEN" =>
                /\ IdPrefix(emitted[i]) = "SCHEMA"
                /\ emitted[i].metric_name = "schema_check"
    /\ last # NoCall =>
          \A i \in 1..Len(last.flags) :
              /\ last.flags[i].contract_id = last.args.contract.contract_id
              /\ last.flags[i].severity = "GREEN" =>
                    /\ last.op = "validate_schema"
                    /\ Len(last.flags) = 1

\* A call on the oncology contract returned flags after an MSK schema call
\* returned the GREEN pass flag; RED and YELLOW flags were emitted as well.
C28_BothContractsAllSeverities ==
    /\ last # NoCall
    /\ last.args.contract = OncContract
    /\ Len(last.flags) > 0
    /\ \E i, j, k \in 1..Len(emitted) :
          /\ emitted[i].severity = "GREEN"
          /\ emitted[i].contract_id = MskContract.contract_id
          /\ emitted[j].severity = "RED"
          /\ emitted[k].severity = "YELLOW"
    /\ MskContract.contract_id # OncContract.contract_id

SkippedByCount(row) ==
    row["episode_count"] = NaN \/ row["episode_count"] = Num(0)

\* The episode table without its rows of missing or zero episode count.
WithoutSkipped(episodes_df) ==
    Table(episodes_df.cols,
          SelectSeq(episodes_df.rows, LAMBDA row : ~SkippedByCount(row)))

\* C29: a row whose episode_count is missing or zero gets no per-row flag of
\* validate_arithmetic, whatever its other fields, and draws no ARITH
\* identifier: the call returns the flags, with the identifiers, that it
\* returns on the table without those rows, and no flag of the four per-row
\* checks is returned when every row is such a row.
C29_MissingOrZeroCountSkipped ==
    last.op = "validate_arithmetic" =>
        LET r == validate_arithmetic(WithoutSkipped(last.args.episodes_df),
                                     last.args.quality_df, last.args.contract)
        IN  /\ last.raised = r.ex
            /\ counters["ARITH"] = r.n
            /\ ~r.ex => last.flags = NumberFlags("ARITH", 0, r.fl)
            /\ (\A i \in 1..Len(last.args.episodes_df.rows) :
                    SkippedByCount(last.args.episodes_df.rows[i]))
                => \A i \in 1..Len(last.flags) :
                      last.flags[i].metric_name \notin
                          {"episode_cost_reconciliation", "target_reconciliation",
                           "variance_calculation", "cost_component_sum"}

\* A row of count 0 whose target total, variance and components are all
\* inconsistent, followed by a row whose cost does not reconcile: the one
\* flag of the per-row checks is the second row's, numbered 1.
C29_SkippedRowBeforeFlaggedRow ==
    /\ last.op = "validate_arithmetic" /\ ~last.raised
    /\ Len(last.args.episodes_df.rows) = 2
    /\ last.args.episodes_df.rows[1]["episode_count"] = Num(0)
    /\ last.args.episodes_df.rows[1]["variance_pct"] = Num(50)
    /\ last.args.episodes_df.rows[1]["total_target"] = Num(120000)
    /\ last.args.episodes_df.rows[2]["episode_count"] = Num(100)
    /\ Len(last.flags) >= 1
    /\ last.flags[1].metric_name = "episode_cost_reconciliation"
    /\ IdSuffix(last.flags[1]) = 1
    /\ \A i \in 2..Len(last.flags) :
          last.flags[i].metric_name \notin
              {"episode_cost_reconciliation", "target_reconciliation",
               "variance_calculation", "cost_component_sum"}

\* The same with a missing count.
C29_MissingCountSkipped ==
    /\ last.op = "validate_arithmetic" /\ ~last.raised
    /\ Len(last.args.episodes_df.rows) = 1
    /\ last.args.episodes_df.rows[1]["episode_count"] = NaN
    /\ last.args.episodes_df.rows[1]["variance_pct"] = Num(50)
    /\ last.args.quality_df.rows = <<>>
    /\ last.args.contract = MskContract
    /\ counters["ARITH"] = Len(last.flags)

\* The flags of the last call's list that a narrative addresses.
FlagsAddressed(n) ==
    SelectSeq(last.args.flags, LAMBDA f :
        \E i \in 1..Len(n.flags_addressed) : n.flags_addressed[i] = f.flag_id)

\* The contract a narrative's prompt was built from: that of the first flag of
\* its episode type.
PromptContractId(n) ==
    SelectSeq(last.args.flags,
              LAMBDA f : f.episode_type = n.episode_type)[1].contract_id

NarrativeOfOneContract(n) ==
    \A i \in 1..Len(FlagsAddressed(n)) :
        FlagsAddressed(n)[i].contract_id = PromptContractId(n)

\* C30: every narrative of generate_all_diagnostics addresses flags of a
\* single contract: each flag whose id is in flags_addressed has the
\* contract_id of the contract the narrative's prompt was built from.
C30_NarrativeOfOneContract ==
    last.op = "generate_all_diagnostics" =>
        \A k \in 1..Len(last.narratives) :
            NarrativeOfOneContract(last.narratives[k])

\* What does hold: a narrative addresses the flags of one episode type, all
\* of them, and those of one contract whenever no episode type occurs under
\* two contracts in the list.
C30_OneEpisodeType ==
    last.op = "generate_all_diagnostics" =>
        \A k \in 1..Len(last.narratives) :
            LET n == last.narratives[k]
            IN  /\ FlagsAddressed(n)
                     = SelectSeq(last.args.flags,
                                 LAMBDA f : f.episode_type = n.episode_type)
                /\ (\A i, j \in 1..Len(last.args.flags) :
                        last.args.flags[i].episode_type
                            = last.args.flags[j].episode_type
                        => last.args.flags[i].contract_id
                            = last.args.flags[j].contract_id)
                   => NarrativeOfOneContract(n)

\* Both schema calls passed: the narrative for 'ALL' is built from the MSK
\* contract and addresses the pass flag of the oncology contract too.
C30_BothContractsUnderAll ==
    /\ last.op = "generate_all_diagnostics"
    /\ Len(last.args.flags) = 2
    /\ last.args.flags[1].severity = "GREEN"
    /\ last.args.flags[2].severity = "GREEN"
    /\ Len(last.narratives) = 1
    /\ last.narratives[1].episode_type = "ALL"
    /\ PromptContractId(last.narratives[1]) = "MSK-2024-001"
    /\ Len(last.narratives[1].flags_addressed) = 2
    /\ FlagsAddressed(last.narratives[1])[2].contract_id = "ONC-2024-001"

====
